---- MODULE Spec2Model ----
(***************************************************************************)
(* A model of the resilience layer of the extraction client:               *)
(*   circuit_breaker.py  CircuitBreaker, RetryPolicy                       *)
(*   state_manager.py    StateManager (job records)                        *)
(*   downloader.py       ResumableDownloader                               *)
(*   player_artifacts.py PlayerArtifactManager                             *)
(*   main.py             IYEOrchestrator.extract_multiple                  *)
(*                                                                         *)
(* Specifications:                                                         *)
(*   SpecCB        the breaker driven directly through its three operations *)
(*   SpecClassify  RetryPolicy.is_retryable_error applied to drawn inputs  *)
(*   SpecRetry     callers of RetryPolicy.with_retry                       *)
(*   SpecDL        the download_stream calls of one job                    *)
(*   SpecDLNoKill  the runs of SpecDL without a kill of the process        *)
(*   SpecAC        two tasks using one PlayerArtifactManager               *)
(*   SpecACSeq     one task using it while the site changes its player     *)
(*   SpecSM        StateManager's job-record operations on drawn records   *)
(*   SpecBatch     one IYEOrchestrator.extract_multiple call               *)
(***************************************************************************)
EXTENDS Integers, Sequences, FiniteSets, TLC

\* ---------------------------------------------------------------- bounds
\* Largest failure_threshold / recovery_threshold a breaker is built with.
MaxThreshold == 3
\* Largest recovery_timeout (in clock ticks) a breaker is built with.
MaxTimeout == 2
\* The clock stops advancing here.
MaxTime == 5
\* record_failure() is not called once failure_count has reached this.
MaxFailures == 5

\* Largest max_retries a with_retry call is given.
MaxRetriesBound == 2

\* ------------------------------------------------------------- Optional[T]
None == <<>>
Some(x) == <<x>>
IsNone(o) == o = <<>>
Val(o) == o[1]

VARIABLES
    cb,         \* the CircuitBreaker object (its fields)
    now,        \* time.time()
    lastOp,     \* history: name of the last breaker operation called
    lastRet,    \* history: what the last can_attempt() returned
    pre,        \* history: the breaker as it was when the last operation was called
    opTime,     \* history: time.time() when the last operation was called
    consec,     \* history: record_failure() calls since the last record_success()
    hadRun,     \* history: some run of failure_threshold consecutive failures happened
    probes,     \* history: can_attempt() calls answered true since the breaker last opened (capped at 2)
    halfSucc,   \* history: record_success() calls made in half_open since it was last entered
    c_msg,      \* is_retryable_error: str(exception), as character codes
    c_status,   \* is_retryable_error: status_code (Optional[int])
    c_out,      \* is_retryable_error: "unset", or the classification returned
    \* with_retry, one call per caller p:
    r_pc,           \* "idle", "calling" (awaiting func()), "sleeping" (backoff), "done"
    r_attempt,      \* the loop variable attempt
    r_max_retries,  \* the argument max_retries
    r_cb,           \* whether a circuit_breaker was passed
    r_exc,          \* last_exception: "none", or the name of an error of Errors
    r_wake,         \* time at which asyncio.sleep(backoff) ends
    r_result,       \* "none"; "ok" (returned); "error" (func's error raised); "breaker_open"
    r_calls,        \* history: invocations of func() made by the call
    r_fails,        \* history: invocations of func() that raised
    r_term,         \* history: the Terminal error func() raised in this call, or "none"
    \* the state directory, the files and the server:
    job,            \* the job record file of the job id (Optional ExtractionState)
    part,           \* the partial-output file target_filename + ".part" (Optional bytes)
    final,          \* the file at target_filename (Optional bytes)
    srv_version,    \* the version of the resource the server holds
    chunk_size,     \* IYEConfig.CHUNK_SIZE, in bytes
    \* download_stream and _download_with_range:
    d_pc,           \* where the download_stream call is
    d_state,        \* download_stream's local: state
    d_resume,       \* download_stream's locals: offset, etag, last_modified
    a_offset,       \* _download_with_range's local: offset
    a_written,      \* _download_with_range's local: bytes_written
    a_chunks,       \* _download_with_range's local: chunk_count
    a_etag,         \* _download_with_range's local: current_etag
    a_last_modified,\* resp.headers.get("Last-Modified")
    a_status,       \* resp.status_code (0 while there is no response)
    a_body,         \* the part of the response body not yet iterated
    d_result,       \* "none"; "ok": the path was returned; "error": it raised
    n_faults,       \* the faults so far: requests failed, bodies broken off,
                    \* processes killed, replacements of the resource
    g_mismatch,     \* history: an attempt of this call took the ETag-mismatch branch
    g_clean,        \* history: this call resumed at O > 0 from the first O bytes of
                    \* the resource the server still holds, under its ETag
    g_ranged200,    \* history: a Range request of this call was answered 200
    g_start,        \* history: the .part file's size (-1 when there was none) and
                    \* the job record's bytes_completed when this call began
    g_prev,         \* history: how the call before ended: "none" (there was
                    \* none), "ok", "error" (it raised) or "killed"
    g_saved,        \* history: the bytes_completed this call saved last by
                    \* update_download_progress (None before the first)
    \* PlayerArtifactManager, its state directory and the site:
    ac_cache,       \* _artifact_cache, the items of the dict in insertion order
    ac_disk,        \* the files of the player_artifacts directory, by version id
    ac_current,     \* _current_artifact
    ac_last_refresh,\* _last_refresh
    utcnow,         \* datetime.utcnow()
    player,         \* the player version the site serves
    ac_pc,          \* per caller: "idle"; inside sync_player_artifact "session",
                    \* "page", "js" or "extract" (what it awaits); "done"
    ac_ver,         \* sync_player_artifact's local: the version player_url names
    ac_result,      \* per caller: None, <<"returned", artifact>> or <<"raised">>
    ac_hist,        \* history of the caller's call (see NoCall)
    ac_faults,      \* the steps of sync_player_artifact that failed so far
    tasks,          \* the callers there are
    ac_has_session, \* the manager's session_factory has a _current_session
    ac_shutdown,    \* close() has shut _js_executor down
    site,           \* the number of player versions the site has
    \* StateManager driven directly:
    sm_jobs,        \* the job record files, by job id (Optional ExtractionState)
    sm_part,        \* the file target_filename + ".part" (Optional bytes)
    sm_out,         \* the last operation called, its arguments and what it returned
    \* extract_multiple:
    b_n,            \* len(video_ids)
    b_max,          \* max_concurrent
    b_sem,          \* the semaphore's counter
    b_pc,           \* per position of video_ids: "absent"; "waiting" (for the
                    \* semaphore), "running" (extract_video), "done", "failed"
    b_res,          \* per position: what extract_with_semaphore returned
    b_ret,          \* what extract_multiple returned
    \* SessionFactory:
    sf_current,     \* _current_session (Optional session)
    sf_cookie_jar,  \* cookie_jar: the names of the cookies in it
    sf_visitor_id,  \* visitor_id (Optional; a value is the number of the
                    \* generate_visitor_id() call that made it)
    sf_session_id,  \* session_id, likewise
    sf_cookies,     \* per session: the cookies it holds
    sf_closed,      \* the sessions that were closed
    sf_pc,          \* per caller: "idle"; "aging" (in create_session, awaiting
                    \* age_cookies); "closing" (in recreate_session, awaiting
                    \* the session's close()); "shutdown" (in close(),
                    \* awaiting the session's close()); "done"
    sf_new,         \* create_session's local session (0: none)
    sf_old,         \* the session recreate_session or close() closes (0: none)
    sf_ret,         \* per caller: the session its call returned (Optional)
    sf_created,     \* history: the AsyncSession objects constructed so far
    sf_generated,   \* history: the generate_visitor_id() and the
                    \* generate_session_id() calls made so far
    sf_recreated,   \* history: recreate_session was called
    sf_direct       \* history: create_session(), close(), get_visitor_id() or
                    \* get_session_id() was called

histVars == <<lastOp, lastRet, pre, opTime, consec, hadRun, probes, halfSucc>>

cbVars == <<cb, now, histVars>>

clVars == <<c_msg, c_status, c_out>>

rtVars == <<r_pc, r_attempt, r_max_retries, r_cb, r_exc, r_wake, r_result, r_calls, r_fails, r_term>>

diskVars == <<job, part, final>>

callVars == <<d_state, d_resume>>

attemptVars ==
    <<a_offset, a_written, a_chunks, a_etag, a_last_modified, a_status, a_body>>

faultVars == <<n_faults>>

ghostVars == <<g_mismatch, g_clean, g_ranged200, g_start, g_prev, g_saved>>

dlVars ==
    <<diskVars, srv_version, chunk_size, d_pc, d_result, callVars, attemptVars, faultVars, ghostVars>>

acVars ==
    <<ac_cache, ac_disk, ac_current, ac_last_refresh, utcnow, player,
      ac_pc, ac_ver, ac_result, ac_hist, ac_faults, tasks, site, ac_has_session, ac_shutdown>>

smVars == <<sm_jobs, sm_part, sm_out>>

baVars == <<b_n, b_max, b_sem, b_pc, b_res, b_ret>>

sfVars ==
    <<sf_current, sf_cookie_jar, sf_visitor_id, sf_session_id, sf_cookies, sf_closed,
      sf_pc, sf_new, sf_old, sf_ret, sf_created, sf_generated, sf_recreated,
      sf_direct>>

vars == <<cbVars, clVars, rtVars, dlVars, acVars, smVars, baVars, sfVars>>

\* ------------------------------------------------------- CircuitBreaker
\* CircuitBreaker.__init__
NewBreaker(ft, rto, rt) ==
    [ state |-> "closed", failure_count |-> 0, success_count |-> 0,
      last_failure_time |-> None,
      failure_threshold |-> ft, recovery_timeout |-> rto, recovery_threshold |-> rt ]

\* mutant: opening keeps the successes counted so far
_open_circuit_keeps_successes(b) == [b EXCEPT !.state = "open"]

_open_circuit(b) == [b EXCEPT !.state = "open", !.success_count = 0]

_half_open_circuit(b) == [b EXCEPT !.state = "half_open", !.success_count = 0]

\* mutant: closing forgets to zero failure_count
_close_circuit_keeps_failures(b) == [b EXCEPT !.state = "closed", !.success_count = 0]

_close_circuit(b) ==
    [b EXCEPT !.state = "closed", !.failure_count = 0, !.success_count = 0]

\* mutant: a success closes the breaker whatever state it is in
record_success_closes(b) ==
    IF b.state = "closed" THEN [b EXCEPT !.failure_count = 0]
    ELSE LET b1 == [b EXCEPT !.success_count = @ + 1]
         IN  IF b1.success_count >= b1.recovery_threshold THEN _close_circuit(b1) ELSE b1

\* mutant: the breaker closes one success late
record_success_late_close(b) ==
    IF b.state = "half_open"
    THEN LET b1 == [b EXCEPT !.success_count = @ + 1]
         IN  IF b1.success_count > b1.recovery_threshold THEN _close_circuit(b1) ELSE b1
    ELSE IF b.state = "closed"
    THEN [b EXCEPT !.failure_count = 0]
    ELSE b

record_success(b) ==
    IF b.state = "half_open"
    THEN LET b1 == [b EXCEPT !.success_count = @ + 1]
         IN  IF b1.success_count >= b1.recovery_threshold THEN _close_circuit(b1) ELSE b1
    ELSE IF b.state = "closed"
    THEN [b EXCEPT !.failure_count = 0]
    ELSE b

\* mutant: the threshold test is strict
record_failure_strict(b, t) ==
    LET b1 == [b EXCEPT !.failure_count = @ + 1, !.last_failure_time = Some(t)]
    IN  IF b1.state = "half_open" THEN _open_circuit(b1)
        ELSE IF b1.failure_count > b1.failure_threshold THEN _open_circuit(b1)
        ELSE b1

record_failure(b, t) ==
    LET b1 == [b EXCEPT !.failure_count = @ + 1, !.last_failure_time = Some(t)]
    IN  IF b1.state = "half_open" THEN _open_circuit(b1)
        ELSE IF b1.failure_count >= b1.failure_threshold THEN _open_circuit(b1)
        ELSE b1

\* mutant: the timeout test is strict
_should_attempt_reset_strict(b, t) ==
    IF IsNone(b.last_failure_time) THEN TRUE
    ELSE (t - Val(b.last_failure_time)) > b.recovery_timeout

_should_attempt_reset(b, t) ==
    IF IsNone(b.last_failure_time) THEN TRUE
    ELSE (t - Val(b.last_failure_time)) >= b.recovery_timeout

\* mutant: a HalfOpen breaker admits no caller besides the one that made it
\* HalfOpen
can_attempt_single_probe(b, t) ==
    IF b.state = "closed" THEN [ret |-> TRUE, cb |-> b]
    ELSE IF b.state = "open"
    THEN IF _should_attempt_reset(b, t)
         THEN [ret |-> TRUE, cb |-> _half_open_circuit(b)]
         ELSE [ret |-> FALSE, cb |-> b]
    ELSE [ret |-> FALSE, cb |-> b]

\* mutant: a refusal counts as a failure of the operation
can_attempt_refusal_recorded(b, t) ==
    IF b.state = "closed" THEN [ret |-> TRUE, cb |-> b]
    ELSE IF b.state = "open"
    THEN IF _should_attempt_reset(b, t)
         THEN [ret |-> TRUE, cb |-> _half_open_circuit(b)]
         ELSE [ret |-> FALSE, cb |-> record_failure(b, t)]
    ELSE [ret |-> TRUE, cb |-> b]

\* can_attempt returns a value and may change the breaker: [ret, cb]
can_attempt(b, t) ==
    IF b.state = "closed" THEN [ret |-> TRUE, cb |-> b]
    ELSE IF b.state = "open"
    THEN IF _should_attempt_reset(b, t)
         THEN [ret |-> TRUE, cb |-> _half_open_circuit(b)]
         ELSE [ret |-> FALSE, cb |-> b]
    ELSE [ret |-> TRUE, cb |-> b]

\* ------------------------------------------- RetryPolicy.is_retryable_error
\* Text is a sequence of character codes (ASCII).
\* str.lower()
LowerChar(c) == IF c >= 65 /\ c <= 90 THEN c + 32 ELSE c

lower(s) == [i \in 1..Len(s) |-> LowerChar(s[i])]

\* `sub in s`
Contains(s, sub) ==
    \E i \in 0..(Len(s) - Len(sub)) : SubSeq(s, i + 1, i + Len(sub)) = sub

\* "timeout"
T_timeout == <<116, 105, 109, 101, 111, 117, 116>>

\* "connection_reset"
T_connection_reset == <<99, 111, 110, 110, 101, 99, 116, 105, 111, 110, 95, 114, 101, 115, 101, 116>>

\* "connection_refused"
T_connection_refused == <<99, 111, 110, 110, 101, 99, 116, 105, 111, 110, 95, 114, 101, 102, 117, 115, 101, 100>>

\* "network_unreachable"
T_network_unreachable == <<110, 101, 116, 119, 111, 114, 107, 95, 117, 110, 114, 101, 97, 99, 104, 97, 98, 108, 101>>

RETRYABLE_ERRORS == {T_timeout, T_connection_reset, T_connection_refused, T_network_unreachable}

TERMINAL_STATUS_CODES == {400, 401, 403, 404, 410}

\* Python truthiness of an Optional[int]
Truthy(status_code) == ~IsNone(status_code) /\ Val(status_code) # 0

\* exception stands for str(exception); TRUE is retryable, FALSE terminal
is_retryable_error(exception, status_code) ==
    IF Truthy(status_code) /\ Val(status_code) \in TERMINAL_STATUS_CODES THEN FALSE
    ELSE IF Truthy(status_code) /\ 500 <= Val(status_code) /\ Val(status_code) < 600 THEN TRUE
    ELSE LET error_msg == lower(exception)
         IN  \E retryable \in RETRYABLE_ERRORS : Contains(error_msg, retryable)

\* ------------------------------------------------ messages used as inputs
\* "timeout"
M_timeout == <<116, 105, 109, 101, 111, 117, 116>>

\* "Read Timeout on socket"
M_ReadTimeout == <<82, 101, 97, 100, 32, 84, 105, 109, 101, 111, 117, 116, 32, 111, 110, 32, 115, 111, 99, 107, 101, 116>>

\* "Operation timed out"
M_timed_out == <<79, 112, 101, 114, 97, 116, 105, 111, 110, 32, 116, 105, 109, 101, 100, 32, 111, 117, 116>>

\* "connection_reset"
M_connection_reset == <<99, 111, 110, 110, 101, 99, 116, 105, 111, 110, 95, 114, 101, 115, 101, 116>>

\* "Connection reset by peer"
M_ConnResetByPeer == <<67, 111, 110, 110, 101, 99, 116, 105, 111, 110, 32, 114, 101, 115, 101, 116, 32, 98, 121, 32, 112, 101, 101, 114>>

\* "CONNECTION_REFUSED"
M_CONNECTION_REFUSED == <<67, 79, 78, 78, 69, 67, 84, 73, 79, 78, 95, 82, 69, 70, 85, 83, 69, 68>>

\* "errno network_unreachable"
M_network_unreachable == <<101, 114, 114, 110, 111, 32, 110, 101, 116, 119, 111, 114, 107, 95, 117, 110, 114, 101, 97, 99, 104, 97, 98, 108, 101>>

\* "Network is unreachable"
M_NetworkIsUnreachable == <<78, 101, 116, 119, 111, 114, 107, 32, 105, 115, 32, 117, 110, 114, 101, 97, 99, 104, 97, 98, 108, 101>>

\* "Download request failed: 503"
M_failed503 == <<68, 111, 119, 110, 108, 111, 97, 100, 32, 114, 101, 113, 117, 101, 115, 116, 32, 102, 97, 105, 108, 101, 100, 58, 32, 53, 48, 51>>

\* "Range request failed: 404"
M_failed404 == <<82, 97, 110, 103, 101, 32, 114, 101, 113, 117, 101, 115, 116, 32, 102, 97, 105, 108, 101, 100, 58, 32, 52, 48, 52>>

\* ""
M_empty == <<>>

Messages ==
    { M_timeout, M_ReadTimeout, M_timed_out, M_connection_reset, M_ConnResetByPeer,
      M_CONNECTION_REFUSED, M_network_unreachable, M_NetworkIsUnreachable,
      M_failed503, M_failed404, M_empty }

StatusCodes ==
    { None, Some(0), Some(200), Some(206), Some(301), Some(399), Some(400), Some(401),
      Some(402), Some(403), Some(404), Some(408), Some(410), Some(416), Some(429),
      Some(499), Some(500), Some(502), Some(503), Some(599), Some(600), Some(601) }

\* ---------------------------------------------------- RetryPolicy.with_retry
\* The callers of with_retry followed step by step; the other users of the
\* same breaker appear through OtherCaller.
Procs == {"p1"}

\* The errors func() raises in SpecRetry, by name; ErrMsg is str(e) and
\* ErrStatus is getattr(e, 'status_code', None).
Errors == {"timeout", "http503", "http404", "reset_by_peer"}

\* The errors the byte transfer raises: a transport error, or the plain
\* Exception of _download_with_range for a refused status.
TransportErrors == {"timeout", "reset_by_peer"}

\* The plain Exceptions _download_with_range raises for a refused status
StatusErrors == {"download_failed_503", "range_failed_416"}

\* str(n) for a status code n
Decimal(n) == <<48 + (n \div 100), 48 + ((n \div 10) % 10), 48 + (n % 10)>>

\* "Download request failed: "
M_DownloadFailed == <<68, 111, 119, 110, 108, 111, 97, 100, 32, 114, 101, 113, 117, 101, 115, 116, 32, 102, 97, 105, 108, 101, 100, 58, 32>>

\* "Range request failed: "
M_RangeFailed == <<82, 97, 110, 103, 101, 32, 114, 101, 113, 117, 101, 115, 116, 32, 102, 97, 105, 108, 101, 100, 58, 32>>

ErrMsg(e) ==
    CASE e = "timeout" -> M_timeout
      [] e = "http503" -> M_failed503
      [] e = "http404" -> M_failed404
      [] e = "download_failed_503" -> M_DownloadFailed \o Decimal(503)
      [] e = "range_failed_416" -> M_RangeFailed \o Decimal(416)
      [] OTHER -> M_ConnResetByPeer

ErrStatus(e) ==
    CASE e = "http503" -> Some(503)
      [] e = "http404" -> Some(404)
      [] OTHER -> None

\* The errors above that the policy classifies Terminal
TerminalErrors ==
    {e \in Errors \cup TransportErrors \cup StatusErrors :
        ~is_retryable_error(ErrMsg(e), ErrStatus(e))}

\* IYEConfig.RETRY_BACKOFF_BASE, IYEConfig.RETRY_JITTER_MAX (seconds)
RETRY_BACKOFF_BASE == 2

RETRY_JITTER_MAX == 1

RECURSIVE Pow(_, _)
Pow(b, n) == IF n = 0 THEN 1 ELSE b * Pow(b, n - 1)

\* mutant: the delay grows with the attempt number, not as its power
calculate_backoff_linear(attempt, jitter) == RETRY_BACKOFF_BASE * attempt + jitter

\* jitter stands for random.uniform(0, RETRY_JITTER_MAX)
calculate_backoff(attempt, jitter) == Pow(RETRY_BACKOFF_BASE, attempt) + jitter

\* mutant: the breaker is not asked
attempt_gate_ignores_breaker(circuit_breaker, b, t) == [go |-> TRUE, cb |-> b]

\* The head of the loop body: whether the attempt goes ahead, and the breaker after
attempt_gate(circuit_breaker, b, t) ==
    IF circuit_breaker
    THEN [go |-> can_attempt(b, t).ret, cb |-> can_attempt(b, t).cb]
    ELSE [go |-> TRUE, cb |-> b]

\* mutant: one attempt too many
after_failure_off_by_one(e, attempt, max_retries) ==
    IF ~is_retryable_error(ErrMsg(e), ErrStatus(e)) THEN "raise"
    ELSE IF attempt > max_retries THEN "raise"
    ELSE "sleep"

\* mutant: a retryable failure is raised at once
after_failure_no_retry(e, attempt, max_retries) == "raise"

\* The except branch after record_failure: re-raise, or back off and go on
after_failure(e, attempt, max_retries) ==
    IF ~is_retryable_error(ErrMsg(e), ErrStatus(e)) THEN "raise"
    ELSE IF attempt >= max_retries THEN "raise"
    ELSE "sleep"

\* ------------------------------------------ SpecCB: the breaker's own API
Min(a, b) == IF a < b THEN a ELSE b

\* ------------------------------------- SpecAC: PlayerArtifactManager
\* config.py
PLAYER_CACHE_TTL == 3600
PLAYER_CACHE_SIZE == 10

\* The player versions the site has are 1 .. MaxVersions when one task uses
\* the manager, and 1 .. MaxVersionsShared when two do.
MaxVersions == 11
MaxVersionsShared == 2
\* datetime.utcnow() advances this many times.
MaxTicks == 2
\* ... and while one task alone uses the manager
MaxTicksSeq == 1
\* The steps of sync_player_artifact that fail, over all calls, when two
\* tasks use the manager; one step fails when one task does.
MaxSyncFaults == 1

Versions == 1..MaxVersions

\* The callers of get_current_artifact / sync_player_artifact (tasks of one
\* event loop).
Callers == {"c1", "c2"}

\* The watch page of version v names the player URL of version v, and that
\* URL serves the JS of version v.
\* hashlib.md5(player_url.encode()).hexdigest()                 (32 hex digits)
temp_version_id(v) == <<"md5", v>>
\* hashlib.sha256(js_code.encode()).hexdigest()                 (64 hex digits)
calculate_player_version_hash(v) == <<"sha256", v>>

\* The ids of the players 1..n.
VersionIdsOf(n) ==
    {temp_version_id(v) : v \in 1..n} \cup
    {calculate_player_version_hash(v) : v \in 1..n}

VersionIds == VersionIdsOf(MaxVersions)

\* The player JS of version v: what the two patterns of _extract_sts_safe find
\* in it. The JS of the even versions carries no signature timestamp.
PlayerJs(v) == [version |-> v, sts |-> IF v % 2 = 0 THEN None ELSE Some(19000 + v)]

\* _extract_sts_safe(js_code)
_extract_sts_safe(js) ==
    IF IsNone(js.sts) THEN Some(19000) ELSE js.sts

\* PlayerArtifact(player_url=..., player_version_id=..., extracted_sts=...),
\* created_at defaulting to datetime.utcnow().
PlayerArtifact(v, t) ==
    [player_url |-> v,
     player_version_id |-> calculate_player_version_hash(v),
     extracted_sts |-> _extract_sts_safe(PlayerJs(v)),
     created_at |-> t]

\* _needs_refresh()
_needs_refresh(last_refresh, t) ==
    IF IsNone(last_refresh) THEN TRUE
    ELSE t - Val(last_refresh) > PLAYER_CACHE_TTL

\* The condition of get_current_artifact under which it calls
\* sync_player_artifact.
needs_refresh(force_refresh, current, last_refresh, t) ==
    force_refresh \/ IsNone(current) \/ _needs_refresh(last_refresh, t)

\* A file of the player_artifacts directory that json.load cannot parse: what
\* save_player_artifact leaves when it ends between open(filepath, 'w'), which
\* creates the file or empties it, and the end of json.dump.
Unparsable ==
    [player_url |-> 0, player_version_id |-> <<"unparsable", 0>>,
     extracted_sts |-> None, created_at |-> 0]

\* The JSONDecodeError json.load raises, as what load_player_artifact gives
JSONDecodeError ==
    [player_url |-> 0, player_version_id |-> <<"JSONDecodeError", 0>>,
     extracted_sts |-> None, created_at |-> 0]

\* StateManager.load_player_artifact(version_id): None when there is no file
\* or the file's artifact is older than the TTL.  Nothing catches what
\* json.load raises on a file it cannot parse.
load_player_artifact(disk, version_id, t) ==
    IF IsNone(disk[version_id]) THEN None
    ELSE IF disk[version_id] = Some(Unparsable) THEN Some(JSONDecodeError)
    ELSE IF t - Val(disk[version_id]).created_at > PLAYER_CACHE_TTL THEN None
    ELSE disk[version_id]

\* StateManager.save_player_artifact(artifact)
save_player_artifact(disk, artifact) ==
    [disk EXCEPT ![artifact.player_version_id] = Some(artifact)]

\* save_player_artifact(artifact) raises.  When open(filepath, 'w') raises
\* (no file descriptor left, no inode left) the files are as they were; when
\* the write raises (no block left, the file too large) open has created the
\* file or emptied the one that was there, and what json.dump got into it
\* cannot be parsed.
save_player_artifact_raises(disk, artifact) ==
    {disk, [disk EXCEPT ![artifact.player_version_id] = Some(Unparsable)]}

\* The dict _artifact_cache is the sequence of its items in insertion order.
CacheKeys(cache) == {cache[i].key : i \in 1..Len(cache)}
CacheIndex(cache, k) == CHOOSE i \in 1..Len(cache) : cache[i].key = k
CacheGet(cache, k) == cache[CacheIndex(cache, k)].value
\* cache[k] = artifact: a key already there keeps its place.
CacheSet(cache, k, artifact) ==
    IF k \in CacheKeys(cache)
    THEN [cache EXCEPT ![CacheIndex(cache, k)] = [key |-> k, value |-> artifact]]
    ELSE Append(cache, [key |-> k, value |-> artifact])
\* del cache[cache[i].key]
CacheDel(cache, i) ==
    [j \in 1..(Len(cache) - 1) |-> IF j < i THEN cache[j] ELSE cache[j + 1]]

\* mutant: the item inserted last goes
oldest_key_last(cache) == Len(cache)

\* min(cache.keys(), key=lambda k: cache[k].created_at): the first of the
\* items with the least created_at.
oldest_key(cache) ==
    CHOOSE i \in 1..Len(cache) :
        /\ \A j \in 1..Len(cache) : cache[i].value.created_at <= cache[j].value.created_at
        /\ \A j \in 1..(i - 1) : cache[j].value.created_at > cache[i].value.created_at

\* _get_from_cache(version_id): the artifact found (or None), the tier it was
\* found in ("raised" when load_player_artifact raised), and the dict
\* afterwards.
_get_from_cache(cache, disk, version_id, t) ==
    IF version_id \in CacheKeys(cache)
    THEN [found |-> Some(CacheGet(cache, version_id)), tier |-> "memory", cache |-> cache]
    ELSE LET artifact == load_player_artifact(disk, version_id, t) IN
         IF artifact = Some(JSONDecodeError)
         THEN [found |-> None, tier |-> "raised", cache |-> cache]
         ELSE IF ~IsNone(artifact)
         THEN [found |-> artifact, tier |-> "disk",
               cache |-> CacheSet(cache, version_id, Val(artifact))]
         ELSE [found |-> None, tier |-> "none", cache |-> cache]

\* _add_to_cache(artifact)
_add_to_cache(cache, artifact) ==
    LET c1 == CacheSet(cache, artifact.player_version_id, artifact) IN
    IF Len(c1) > PLAYER_CACHE_SIZE THEN CacheDel(c1, oldest_key(c1)) ELSE c1

\* The except clause of sync_player_artifact: the current artifact if there is
\* one, else the exception is raised again.
sync_fallback_raise(current) == <<"raised">>

sync_fallback(current) ==
    IF ~IsNone(current) THEN <<"returned", Val(current)>> ELSE <<"raised">>

\* What is remembered of a caller's call, for the properties.
NoCall ==
    [call |-> "none",       \* "get", "force" (force_refresh=True) or "sync"
     at |-> 0,              \* utcnow() when it was called, of a "get" call
     synced |-> FALSE,      \* it ran sync_player_artifact
     tier |-> "none",       \* the tier its artifact was found in
     age |-> 0,             \* that artifact's age when it was found
     failed |-> "none",     \* the step of sync_player_artifact that failed
     built |-> FALSE,       \* it built an artifact from the player JS
     gets |-> 0,            \* the session.get() calls it made
     err |-> "none",        \* the error that ended its failed request
     prior |-> None]        \* _current_artifact when the step failed, or when
                            \* the artifact was built

ParkedManager ==
    /\ ac_cache = <<>>
    /\ ac_current = None
    /\ ac_last_refresh = None
    /\ player = 1
    /\ ac_pc = [p \in Callers |-> "idle"]
    /\ ac_ver = [p \in Callers |-> 0]
    /\ ac_result = [p \in Callers |-> None]
    /\ ac_hist = [p \in Callers |-> NoCall]
    /\ ac_faults = 0
    /\ tasks = {}
    /\ site = 1
    /\ ac_has_session = FALSE
    /\ ac_shutdown = FALSE

ParkedAC ==
    /\ ParkedManager
    /\ ac_disk = [k \in VersionIds |-> None]
    /\ utcnow = 0

\* ------------------------------------------- StateManager, driven directly
\* The job ids whose record files the jobs directory can hold.
JobIds == {"j1", "j2", "j3"}

\* The largest bytes_completed and .part file size.
MaxBytes == 2

\* models.py: "pending, in_progress, completed, failed"
Statuses == {"pending", "in_progress", "completed", "failed"}

\* StateManager.list_incomplete_jobs(): the dict returned, over the job record
\* files jobs (job id -> Optional ExtractionState).
list_incomplete_all(jobs) ==
    [j \in {k \in DOMAIN jobs : ~IsNone(jobs[k])} |-> Val(jobs[j])]

list_incomplete_jobs(jobs) ==
    [j \in {k \in DOMAIN jobs :
              ~IsNone(jobs[k]) /\ Val(jobs[k]).status \in {"pending", "in_progress"}}
       |-> Val(jobs[j])]

\* A .part file of n bytes.
PartOfSize(n) == [i \in 1..n |-> 0]

\* No StateManager operation has been called and its directory is empty.
ParkedSM ==
    /\ sm_jobs = [j \in JobIds |-> None]
    /\ sm_part = None
    /\ sm_out = <<"none">>

\* ------------------------------------- IYEOrchestrator.extract_multiple
\* The longest video_ids list and the largest max_concurrent.
MaxVideos == 4
MaxConcurrent == 3

\* The positions of the list video_ids.
Videos == 1..MaxVideos

\* asyncio.Semaphore: whether acquire() returns, given the counter.
sem_free(value) == value > 0

\* No extract_multiple call is under way.
ParkedBA ==
    /\ b_n = 0
    /\ b_max = 1
    /\ b_sem = 1
    /\ b_pc = [v \in Videos |-> "absent"]
    /\ b_res = [v \in Videos |-> None]
    /\ b_ret = None

\* ------------------------------------------------- SessionFactory
\* The most AsyncSession objects one run constructs.
MaxSessions == 3

Sessions == 1..MaxSessions

\* The cookies the site sets, by name
Cookies == {"CONSENT", "VISITOR_INFO1_LIVE"}

\* SessionFactory.__init__: no session, an empty cookie jar, no identity
\* markers; no call is under way.
ParkedSF ==
    /\ sf_current = None
    /\ sf_cookie_jar = {}
    /\ sf_visitor_id = None /\ sf_session_id = None
    /\ sf_cookies = [s \in Sessions |-> {}]
    /\ sf_closed = {}
    /\ sf_pc = [p \in Callers |-> "idle"]
    /\ sf_new = [p \in Callers |-> 0]
    /\ sf_old = [p \in Callers |-> 0]
    /\ sf_ret = [p \in Callers |-> None]
    /\ sf_created = 0
    /\ sf_generated = [visitor_id |-> 0, session_id |-> 0]
    /\ sf_recreated = FALSE /\ sf_direct = FALSE

\* No classification is under way.
ParkedCL == c_msg = <<>> /\ c_status = None /\ c_out = "unset"

\* No transfer is under way and nothing is on disk.
ParkedDL ==
    /\ job = None /\ part = None /\ final = None
    /\ srv_version = 1
    /\ chunk_size = 1
    /\ d_pc = "idle" /\ d_state = None /\ d_resume = <<0, None, None>>
    /\ a_offset = 0 /\ a_written = 0 /\ a_chunks = 0
    /\ a_etag = None /\ a_last_modified = None /\ a_status = 0 /\ a_body = <<>>
    /\ d_result = "none"
    /\ n_faults = 0
    /\ g_mismatch = FALSE /\ g_clean = FALSE /\ g_ranged200 = FALSE
    /\ g_start = <<0, 0>>
    /\ g_prev = "none"
    /\ g_saved = None

\* No with_retry call is under way.
ParkedRT ==
    /\ r_pc = [p \in Procs |-> "idle"]
    /\ r_attempt = [p \in Procs |-> 0]
    /\ r_max_retries = [p \in Procs |-> 0]
    /\ r_cb = [p \in Procs |-> FALSE]
    /\ r_exc = [p \in Procs |-> "none"]
    /\ r_wake = [p \in Procs |-> 0]
    /\ r_result = [p \in Procs |-> "none"]
    /\ r_calls = [p \in Procs |-> 0]
    /\ r_fails = [p \in Procs |-> 0]
    /\ r_term = [p \in Procs |-> "none"]

\* The history of breaker calls, before any call.
InitHist ==
    /\ lastOp = "none"
    /\ lastRet = FALSE
    /\ pre = cb
    /\ opTime = 0
    /\ consec = 0
    /\ hadRun = FALSE
    /\ probes = 0
    /\ halfSucc = 0

InitCB ==
    /\ \E ft \in 1..MaxThreshold, rto \in 1..MaxTimeout, rt \in 1..MaxThreshold :
          cb = NewBreaker(ft, rto, rt)
    /\ now = 0
    /\ InitHist
    /\ ParkedCL
    /\ ParkedRT
    /\ ParkedDL
    /\ ParkedAC
    /\ ParkedSM
    /\ ParkedBA
    /\ ParkedSF

\* time.time() advances
Tick ==
    /\ now < MaxTime
    /\ now' = now + 1
    /\ UNCHANGED <<cb, histVars, clVars, smVars, baVars, sfVars, acVars, rtVars, dlVars>>

CallRecordSuccess ==
    /\ cb' = record_success(cb)
    /\ lastOp' = "record_success"
    /\ pre' = cb
    /\ opTime' = now
    /\ consec' = 0
    /\ probes' = IF cb'.state = "closed" THEN 0 ELSE probes
    /\ halfSucc' = IF cb.state = "half_open" THEN halfSucc + 1 ELSE halfSucc
    /\ UNCHANGED <<now, lastRet, hadRun, clVars, smVars, baVars, sfVars, acVars, rtVars, dlVars>>

CallRecordFailure ==
    /\ cb.failure_count < MaxFailures
    /\ cb' = record_failure(cb, now)
    /\ lastOp' = "record_failure"
    /\ pre' = cb
    /\ opTime' = now
    /\ consec' = consec + 1
    /\ hadRun' = (hadRun \/ consec' >= cb.failure_threshold)
    /\ probes' = IF cb'.state = "open" THEN 0 ELSE probes
    /\ UNCHANGED <<now, lastRet, halfSucc, clVars, smVars, baVars, sfVars, acVars, rtVars, dlVars>>

CallCanAttempt ==
    LET r == can_attempt(cb, now)
    IN  /\ cb' = r.cb
        /\ lastRet' = r.ret
        /\ lastOp' = "can_attempt"
        /\ pre' = cb
        /\ opTime' = now
        /\ probes' = IF r.ret /\ cb.state # "closed" THEN Min(probes + 1, 2) ELSE probes
        /\ halfSucc' = IF cb.state = "open" /\ r.cb.state = "half_open" THEN 0 ELSE halfSucc
        /\ UNCHANGED <<now, consec, hadRun, clVars, smVars, baVars, sfVars, acVars, rtVars, dlVars>>

NextCB == Tick \/ CallRecordSuccess \/ CallRecordFailure \/ CallCanAttempt

SpecCB == InitCB /\ [][NextCB]_vars

\* --------------------------------- SpecClassify: the failure classifier
\* No breaker is in use.
ParkedCB == cb = NewBreaker(1, 1, 1) /\ now = 0 /\ InitHist

InitClassify ==
    /\ c_msg \in Messages
    /\ c_status \in StatusCodes
    /\ c_out = "unset"
    /\ ParkedCB
    /\ ParkedRT
    /\ ParkedDL
    /\ ParkedAC
    /\ ParkedSM
    /\ ParkedBA
    /\ ParkedSF

Classify ==
    /\ c_out = "unset"
    /\ c_out' = IF is_retryable_error(c_msg, c_status) THEN "retryable" ELSE "terminal"
    /\ UNCHANGED <<c_msg, c_status, cbVars, rtVars, dlVars, acVars, smVars, baVars, sfVars>>

NextClassify == Classify

SpecClassify == InitClassify /\ [][NextClassify]_vars

\* ------------------------------------- SpecRetry: callers of with_retry
InitRetry ==
    /\ \E ft \in 1..MaxThreshold, rto \in 1..MaxTimeout, rt \in 1..MaxThreshold :
          cb = NewBreaker(ft, rto, rt)
    /\ now = 0
    /\ InitHist
    /\ ParkedCL
    /\ ParkedRT
    /\ ParkedDL
    /\ ParkedAC
    /\ ParkedSM
    /\ ParkedBA
    /\ ParkedSF

TickRetry ==
    /\ now < MaxTime
    /\ now' = now + 1
    /\ UNCHANGED <<cb, histVars, clVars, smVars, baVars, sfVars, acVars, rtVars, dlVars>>

\* One pass through the head of the loop for caller p, which holds breaker
\* flag circuit_breaker: the breaker refuses and the call raises, or func()
\* is invoked and awaited.
Gate(p, circuit_breaker) ==
    LET g == attempt_gate(circuit_breaker, cb, now)
    IN  /\ cb' = g.cb
        /\ IF g.go
           THEN /\ r_pc' = [r_pc EXCEPT ![p] = "calling"]
                /\ r_calls' = [r_calls EXCEPT ![p] = @ + 1]
                /\ r_result' = [r_result EXCEPT ![p] = "none"]
           ELSE /\ r_pc' = [r_pc EXCEPT ![p] = "done"]
                /\ r_calls' = r_calls
                /\ r_result' = [r_result EXCEPT ![p] = "breaker_open"]

\* with_retry is called: attempt 0
Begin(p) ==
    /\ r_pc[p] = "idle"
    /\ \E mr \in 0..MaxRetriesBound, b \in BOOLEAN :
          /\ r_max_retries' = [r_max_retries EXCEPT ![p] = mr]
          /\ r_cb' = [r_cb EXCEPT ![p] = b]
          /\ Gate(p, b)
    /\ UNCHANGED <<now, histVars, clVars, smVars, baVars, sfVars, acVars, dlVars, r_attempt, r_exc, r_wake, r_fails, r_term>>

\* The next iteration of the loop for caller p
Resumed(p) ==
    /\ r_attempt' = [r_attempt EXCEPT ![p] = @ + 1]
    /\ r_wake' = [r_wake EXCEPT ![p] = 0]
    /\ Gate(p, r_cb[p])
    /\ UNCHANGED <<r_max_retries, r_cb, r_exc, r_fails, r_term>>

\* the backoff sleep ends: the next attempt
Resume(p) ==
    /\ r_pc[p] = "sleeping"
    /\ now >= r_wake[p]
    /\ Resumed(p)
    /\ UNCHANGED <<now, histVars, clVars, smVars, baVars, sfVars, acVars, dlVars>>

\* func() returned to caller p: lines 167-173
Returned(p) ==
    /\ cb' = IF r_cb[p] THEN record_success(cb) ELSE cb
    /\ r_pc' = [r_pc EXCEPT ![p] = "done"]
    /\ r_result' = [r_result EXCEPT ![p] = "ok"]
    /\ UNCHANGED <<r_attempt, r_max_retries, r_cb, r_exc, r_wake, r_calls, r_fails, r_term>>

\* mutant: a terminal failure is re-raised without telling the breaker
Raised_terminal_unrecorded(p, e, jitter) ==
    /\ r_exc' = [r_exc EXCEPT ![p] = e]
    /\ cb' = IF r_cb[p] /\ e \notin TerminalErrors THEN record_failure(cb, now) ELSE cb
    /\ r_fails' = [r_fails EXCEPT ![p] = @ + 1]
    /\ r_term' = [r_term EXCEPT ![p] = IF e \in TerminalErrors THEN e ELSE @]
    /\ IF after_failure(e, r_attempt[p], r_max_retries[p]) = "raise"
       THEN /\ r_pc' = [r_pc EXCEPT ![p] = "done"]
            /\ r_result' = [r_result EXCEPT ![p] = "error"]
            /\ r_wake' = r_wake
       ELSE /\ r_pc' = [r_pc EXCEPT ![p] = "sleeping"]
            /\ r_result' = r_result
            /\ r_wake' = [r_wake EXCEPT ![p] = now + calculate_backoff(r_attempt[p], jitter)]
    /\ UNCHANGED <<r_attempt, r_max_retries, r_cb, r_calls>>

\* func() raised e to caller p, jitter being the random part of the backoff:
\* lines 175-197
Raised(p, e, jitter) ==
    /\ r_exc' = [r_exc EXCEPT ![p] = e]
    /\ cb' = IF r_cb[p] THEN record_failure(cb, now) ELSE cb
    /\ r_fails' = [r_fails EXCEPT ![p] = @ + 1]
    /\ r_term' = [r_term EXCEPT ![p] = IF e \in TerminalErrors THEN e ELSE @]
    /\ IF after_failure(e, r_attempt[p], r_max_retries[p]) = "raise"
       THEN /\ r_pc' = [r_pc EXCEPT ![p] = "done"]
            /\ r_result' = [r_result EXCEPT ![p] = "error"]
            /\ r_wake' = r_wake
       ELSE /\ r_pc' = [r_pc EXCEPT ![p] = "sleeping"]
            /\ r_result' = r_result
            /\ r_wake' = [r_wake EXCEPT ![p] = now + calculate_backoff(r_attempt[p], jitter)]
    /\ UNCHANGED <<r_attempt, r_max_retries, r_cb, r_calls>>

\* func() returns
FuncReturns(p) ==
    /\ r_pc[p] = "calling"
    /\ Returned(p)
    /\ UNCHANGED <<now, histVars, clVars, smVars, baVars, sfVars, acVars, dlVars>>

\* func() raises one of Errors
FuncRaises(p) ==
    /\ r_pc[p] = "calling"
    /\ r_cb[p] => cb.failure_count < MaxFailures
    /\ \E e \in Errors, jitter \in 0..RETRY_JITTER_MAX : Raised(p, e, jitter)
    /\ UNCHANGED <<now, histVars, clVars, smVars, baVars, sfVars, acVars, dlVars>>

\* the caller has its answer; its frame is gone
Forget(p) ==
    /\ r_pc[p] = "done"
    /\ r_pc' = [r_pc EXCEPT ![p] = "idle"]
    /\ r_attempt' = [r_attempt EXCEPT ![p] = 0]
    /\ r_max_retries' = [r_max_retries EXCEPT ![p] = 0]
    /\ r_cb' = [r_cb EXCEPT ![p] = FALSE]
    /\ r_exc' = [r_exc EXCEPT ![p] = "none"]
    /\ r_wake' = [r_wake EXCEPT ![p] = 0]
    /\ r_result' = [r_result EXCEPT ![p] = "none"]
    /\ r_calls' = [r_calls EXCEPT ![p] = 0]
    /\ r_fails' = [r_fails EXCEPT ![p] = 0]
    /\ r_term' = [r_term EXCEPT ![p] = "none"]
    /\ UNCHANGED <<cbVars, clVars, smVars, baVars, sfVars, acVars, dlVars>>

\* Another coroutine's with_retry call on the same breaker runs between two
\* suspension points of the callers followed here: its gate, or the
\* record_success / record_failure that follows its func().
OtherCaller ==
    /\ \/ cb' = can_attempt(cb, now).cb
       \/ cb' = record_success(cb)
       \/ cb.failure_count < MaxFailures /\ cb' = record_failure(cb, now)
    /\ UNCHANGED <<now, histVars, clVars, smVars, baVars, sfVars, acVars, rtVars, dlVars>>

NextRetry ==
    \/ TickRetry
    \/ OtherCaller
    \/ \E p \in Procs : Begin(p)
    \/ \E p \in Procs : Resume(p)
    \/ \E p \in Procs : FuncReturns(p)
    \/ \E p \in Procs : FuncRaises(p)
    \/ \E p \in Procs : Forget(p)

SpecRetry == InitRetry /\ [][NextRetry]_vars

\* ------------------------------------------------- ResumableDownloader
\* One job, from its first download_stream call until its record is
\* deleted: one call at a time for its job id and target filename, followed
\* step by step.  The job record, the .part file and the target file are the
\* disk; the server holds one resource, whose content and validators change
\* with its version.  One chunk of iter_content is one element of a file.

\* IYEConfig.MAX_RETRIES, the default max_retries of with_retry
MAX_RETRIES == 3

\* IYEConfig.CIRCUIT_BREAKER_THRESHOLD / _TIMEOUT / _RECOVERY_THRESHOLD, the
\* defaults CircuitBreaker("download") is built with
CIRCUIT_BREAKER_THRESHOLD == 5

CIRCUIT_BREAKER_TIMEOUT == 60

CIRCUIT_BREAKER_RECOVERY_THRESHOLD == 2

\* "if chunk_count % 10 == 0"
PROGRESS_EVERY == 10

\* The length of the first version of the resource, in bytes
ResLen == 12

\* The faults of one run: requests that fail (the transport raises, or the
\* status is refused), response bodies that break off, kills of the process
\* and replacements of the resource on the server
MaxFaults == 2

\* The numbers of chunks of a response after which its body breaks off with
\* a transport error: before the first progress update, right after it, and
\* one chunk later. (A kill of the process comes at any point.)
BreakPoints == {1, PROGRESS_EVERY, PROGRESS_EVERY + 1}

\* The largest IYEConfig.CHUNK_SIZE of a run, in bytes
MaxChunk == 2

\* The values IYEConfig.CHUNK_SIZE can have
ChunkLens == 1..MaxChunk

\* The caller of with_retry inside download_stream
DP == "p1"

Max(a, b) == IF a > b THEN a ELSE b

\* The resource at version v: its length, its bytes, its validators
LenOf(v) == ResLen + 1 - v

Content(v) == [i \in 1..LenOf(v) |-> 100 * v + i]

ETag(v) == Some(v)

LastModified(v) == Some(v)

\* ExtractionState(...) as download_stream creates it: the fields the
\* download reads or writes, at their defaults
NewExtractionState ==
    [bytes_completed |-> 0, etag |-> None, last_modified |-> None, status |-> "pending"]

\* A record file that json.load cannot parse: load_extraction_state raises
\* JSONDecodeError on it.  The status tells it apart; no operation gets to
\* read the other fields.
Unreadable ==
    [bytes_completed |-> 0, etag |-> None, last_modified |-> None, status |-> "unreadable"]

\* mutant: the offset is the size of the file, whatever progress was saved
get_download_resume_info_size(j, f) ==
    IF IsNone(j) THEN <<0, None, None>>
    ELSE <<IF IsNone(f) THEN 0 ELSE Len(Val(f)), Val(j).etag, Val(j).last_modified>>

\* mutant: a missing .part file counts as a file of size 0
get_download_resume_info_absent_as_empty(j, f) ==
    IF IsNone(j) THEN <<0, None, None>>
    ELSE <<Max(IF IsNone(f) THEN 0 ELSE Len(Val(f)), Val(j).bytes_completed),
           Val(j).etag, Val(j).last_modified>>

\* StateManager.get_download_resume_info, on job record j and .part file f
get_download_resume_info(j, f) ==
    IF IsNone(j) THEN <<0, None, None>>
    ELSE <<IF IsNone(f) THEN 0 ELSE Max(Len(Val(f)), Val(j).bytes_completed),
           Val(j).etag, Val(j).last_modified>>

\* mutant: the validators are stored as given, absent ones included
update_download_progress_overwrites(j, bytes_completed, etag, last_modified) ==
    IF IsNone(j) THEN j
    ELSE Some([Val(j) EXCEPT
                 !.bytes_completed = bytes_completed,
                 !.etag = etag,
                 !.last_modified = last_modified,
                 !.status = "in_progress"])

\* StateManager.update_download_progress: the job record afterwards.  A
\* validator is a non-empty string, so "if etag:" asks whether it is there.
update_download_progress(j, bytes_completed, etag, last_modified) ==
    IF IsNone(j) THEN j
    ELSE Some([Val(j) EXCEPT
                 !.bytes_completed = bytes_completed,
                 !.etag = IF IsNone(etag) THEN @ ELSE etag,
                 !.last_modified = IF IsNone(last_modified) THEN @ ELSE last_modified,
                 !.status = "in_progress"])

\* mutant: the size of the file is not written into the state
completed_state_stale(state, size) == [state EXCEPT !.status = "completed"]

\* "Update state to completed": state.status and state.bytes_completed set
completed_state(state, size) ==
    [state EXCEPT !.status = "completed", !.bytes_completed = size]

\* "Build headers": the first byte asked for in the Range header, if any
range_header(offset) == IF offset > 0 THEN Some(offset) ELSE None

\* "Validate status": "ok", or which of the two exceptions is raised
validate_status(offset, status_code) ==
    IF offset > 0 /\ status_code \notin {200, 206} THEN "range_failed"
    ELSE IF offset = 0 /\ status_code # 200 THEN "download_failed"
    ELSE "ok"

\* The exception raised for a refused status; of the statuses the server
\* answers with, a Range request is refused for 416 and a plain one for 503
StatusError(offset, status_code) ==
    IF validate_status(offset, status_code) = "range_failed"
    THEN "range_failed_416"
    ELSE "download_failed_503"

\* "Validate ETag if we have one": whether the offset is dropped
etag_mismatch(expected_etag, current_etag) ==
    ~IsNone(expected_etag) /\ ~IsNone(current_etag) /\ expected_etag # current_etag

\* open(part_file, mode): the file as the open leaves it
open_part(f, offset) ==
    IF offset > 0 THEN (IF IsNone(f) THEN Some(<<>>) ELSE f) ELSE Some(<<>>)

\* The statuses the server answers a request with: 200 with the whole
\* resource, or 503, when there is no Range header; with "Range: bytes=o-",
\* 206 with the bytes from o on when there are any and 416 when there are
\* none, or 200 with the whole resource from a server that ignores Range.
ServerStatuses(offset, v) ==
    IF offset = 0 THEN {200, 503}
    ELSE {200} \cup (IF offset < LenOf(v) THEN {206} ELSE {416})

ResponseBody(status_code, offset, v) ==
    IF status_code = 206 THEN SubSeq(Content(v), offset + 1, LenOf(v)) ELSE Content(v)

\* time.time() is read as 0 throughout: d seconds going by move every stored
\* instant d seconds into the past.  The breaker only asks whether the last
\* failure is recovery_timeout old, so ages stop at CIRCUIT_BREAKER_TIMEOUT.
Aged(b, d) ==
    [b EXCEPT !.last_failure_time =
        IF IsNone(@) THEN @ ELSE Some(Max(Val(@) - d, 0 - CIRCUIT_BREAKER_TIMEOUT))]

\* The attempt's locals when no attempt is running
NoAttempt ==
    /\ a_offset' = 0 /\ a_written' = 0 /\ a_chunks' = 0
    /\ a_etag' = None /\ a_last_modified' = None /\ a_status' = 0 /\ a_body' = <<>>

\* with_retry has raised or goes on: where download_stream is afterwards
AfterRetryStep ==
    /\ d_pc' = CASE r_pc'[DP] = "calling" -> "requesting"
                 [] r_pc'[DP] = "sleeping" -> "sleeping"
                 [] OTHER -> "done"
    /\ d_result' = IF r_pc'[DP] = "done" THEN "error" ELSE "none"

\* A file that is at the target filename before the job begins
OldFile == <<0>>

\* No transfer is under way; no job record and no .part file exist
FreshDL ==
    /\ job = None /\ part = None /\ final \in {None, Some(OldFile)}
    /\ srv_version = 1
    /\ chunk_size \in ChunkLens
    /\ d_pc = "idle" /\ d_state = None /\ d_resume = <<0, None, None>>
    /\ a_offset = 0 /\ a_written = 0 /\ a_chunks = 0
    /\ a_etag = None /\ a_last_modified = None /\ a_status = 0 /\ a_body = <<>>
    /\ d_result = "none"
    /\ n_faults = 0
    /\ g_mismatch = FALSE /\ g_clean = FALSE /\ g_ranged200 = FALSE
    /\ g_start = <<0, 0>>
    /\ g_prev = "none"
    /\ g_saved = None

InitDL ==
    /\ cb = NewBreaker(CIRCUIT_BREAKER_THRESHOLD, CIRCUIT_BREAKER_TIMEOUT,
                       CIRCUIT_BREAKER_RECOVERY_THRESHOLD)
    /\ now = 0
    /\ InitHist
    /\ ParkedCL
    /\ ParkedRT
    /\ FreshDL
    /\ ParkedAC
    /\ ParkedSM
    /\ ParkedBA
    /\ ParkedSF

\* download_stream up to "await self.session_factory.get_session()"
DL_Start ==
    /\ d_pc = "idle"
    /\ ~IsNone(job) \/ final \in {None, Some(OldFile)}
    /\ IF job = Some(Unreadable)
       THEN /\ d_pc' = "done"
            /\ d_result' = "error"
            /\ UNCHANGED <<job, d_state, d_resume, g_clean, g_start>>
       ELSE \E url_available \in BOOLEAN :
          LET state == IF IsNone(job) THEN NewExtractionState ELSE Val(job)
              info == get_download_resume_info(Some(state), part)
          IN  /\ job' = Some(state)
              /\ d_state' = Some(state)
              /\ d_resume' = info
              /\ g_clean' = ( /\ info[1] > 0
                              /\ info[2] = ETag(srv_version)
                              /\ info[1] <= LenOf(srv_version)
                              /\ part = Some(SubSeq(Content(srv_version), 1, info[1])) )
              /\ g_start' = <<IF IsNone(part) THEN -1 ELSE Len(Val(part)),
                               state.bytes_completed>>
              /\ d_pc' = IF url_available THEN "session" ELSE "done"
              /\ d_result' = IF url_available THEN "none" ELSE "error"
    /\ g_mismatch' = FALSE
    /\ g_ranged200' = FALSE
    /\ g_saved' = None
    /\ UNCHANGED <<cbVars, clVars, smVars, baVars, sfVars, acVars, rtVars, part, final, srv_version, chunk_size, attemptVars, faultVars,
                   g_prev>>

\* The session is there: with_retry is entered and reaches func() or is
\* refused by the breaker
DL_Begin ==
    /\ d_pc = "session"
    /\ r_max_retries' = [r_max_retries EXCEPT ![DP] = MAX_RETRIES]
    /\ r_cb' = [r_cb EXCEPT ![DP] = TRUE]
    /\ Gate(DP, TRUE)
    /\ AfterRetryStep
    /\ UNCHANGED <<now, histVars, clVars, smVars, baVars, sfVars, acVars, r_attempt, r_exc, r_wake, r_fails, r_term>>
    /\ UNCHANGED <<diskVars, srv_version, chunk_size, callVars, attemptVars, faultVars, ghostVars>>

\* "await session.get(...)" raises
DL_GetRaises ==
    /\ d_pc = "requesting"
    /\ n_faults < MaxFaults
    /\ \E e \in TransportErrors, jitter \in 0..RETRY_JITTER_MAX : Raised(DP, e, jitter)
    /\ AfterRetryStep
    /\ n_faults' = n_faults + 1
    /\ UNCHANGED <<now, histVars, clVars, smVars, baVars, sfVars, acVars>>
    /\ UNCHANGED <<diskVars, srv_version, chunk_size, callVars, attemptVars, ghostVars>>

\* The response has a status the validation refuses
DL_Refused ==
    /\ d_pc = "requesting"
    /\ n_faults < MaxFaults
    /\ \E status_code \in ServerStatuses(d_resume[1], srv_version),
          jitter \in 0..RETRY_JITTER_MAX :
          /\ validate_status(d_resume[1], status_code) # "ok"
          /\ Raised(DP, StatusError(d_resume[1], status_code), jitter)
    /\ AfterRetryStep
    /\ n_faults' = n_faults + 1
    /\ UNCHANGED <<now, histVars, clVars, smVars, baVars, sfVars, acVars>>
    /\ UNCHANGED <<diskVars, srv_version, chunk_size, callVars, attemptVars, ghostVars>>

\* The response passes the validation: lines 134-154, up to the first chunk
DL_Accepted ==
    /\ d_pc = "requesting"
    /\ \E status_code \in ServerStatuses(d_resume[1], srv_version) :
          LET current_etag == ETag(srv_version)
              mismatch == etag_mismatch(d_resume[2], current_etag)
              offset == IF mismatch THEN 0 ELSE d_resume[1]
          IN  /\ validate_status(d_resume[1], status_code) = "ok"
              /\ a_offset' = offset
              /\ a_etag' = current_etag
              /\ a_last_modified' = LastModified(srv_version)
              /\ a_status' = status_code
              /\ part' = open_part(part, offset)
              /\ a_written' = offset
              /\ a_chunks' = 0
              /\ a_body' = ResponseBody(status_code, d_resume[1], srv_version)
              /\ g_mismatch' = (g_mismatch \/ mismatch)
              /\ g_ranged200' = (g_ranged200 \/ (d_resume[1] > 0 /\ status_code = 200))
    /\ d_pc' = "streaming"
    /\ UNCHANGED <<cbVars, clVars, smVars, baVars, sfVars, acVars, rtVars>>
    /\ UNCHANGED <<job, final, srv_version, chunk_size, d_result, callVars, faultVars, g_clean, g_start,
                   g_prev, g_saved>>

\* "async for chunk in resp.iter_content(chunk_size=IYEConfig.CHUNK_SIZE)":
\* the next chunk, of chunk_size bytes of the body or, at its end, of what
\* is left of it
NextChunk == SubSeq(a_body, 1, Min(chunk_size, Len(a_body)))

\* One chunk arrives and is written; every PROGRESS_EVERY chunks the progress
\* is saved
DL_Chunk ==
    /\ d_pc = "streaming"
    /\ a_body # <<>>
    /\ part' = Some(Val(part) \o NextChunk)
    /\ a_body' = SubSeq(a_body, Len(NextChunk) + 1, Len(a_body))
    /\ a_written' = a_written + Len(NextChunk)
    /\ a_chunks' = a_chunks + 1
    /\ job' = IF a_chunks' % PROGRESS_EVERY = 0
              THEN update_download_progress(job, a_written', a_etag, a_last_modified)
              ELSE job
    /\ g_saved' = IF a_chunks' % PROGRESS_EVERY = 0 /\ ~IsNone(job)
                  THEN Some(a_written')
                  ELSE g_saved
    /\ UNCHANGED <<cbVars, clVars, smVars, baVars, sfVars, acVars, rtVars>>
    /\ UNCHANGED <<final, srv_version, chunk_size, d_pc, d_result, callVars, a_offset, a_etag,
                   a_last_modified, a_status, faultVars, g_mismatch, g_clean,
                   g_ranged200, g_start, g_prev>>

\* iter_content raises before the body is through
DL_StreamFails ==
    /\ d_pc = "streaming"
    /\ a_body # <<>>
    /\ a_chunks \in BreakPoints
    /\ n_faults < MaxFaults
    /\ \E e \in TransportErrors, jitter \in 0..RETRY_JITTER_MAX : Raised(DP, e, jitter)
    /\ AfterRetryStep
    /\ NoAttempt
    /\ n_faults' = n_faults + 1
    /\ UNCHANGED <<now, histVars, clVars, smVars, baVars, sfVars, acVars>>
    /\ UNCHANGED <<diskVars, srv_version, chunk_size, callVars, ghostVars>>

\* The body is through: the final progress update, _download returns and
\* with_retry records the success and returns
DL_StreamEnds ==
    /\ d_pc = "streaming"
    /\ a_body = <<>>
    /\ job' = update_download_progress(job, a_written, a_etag, a_last_modified)
    /\ g_saved' = IF IsNone(job) THEN g_saved ELSE Some(a_written)
    /\ Returned(DP)
    /\ NoAttempt
    /\ d_pc' = "complete"
    /\ UNCHANGED <<now, histVars, clVars, smVars, baVars, sfVars, acVars>>
    /\ UNCHANGED <<part, final, srv_version, chunk_size, d_result, callVars, faultVars, g_mismatch,
                   g_clean, g_ranged200, g_start, g_prev>>

\* Something outside the downloader deletes the .part file after the byte
\* transfer has ended: what "os.path.exists(part_file)" then finds
DL_PartRemoved ==
    /\ d_pc = "complete"
    /\ ~IsNone(part)
    /\ n_faults < MaxFaults
    /\ n_faults' = n_faults + 1
    /\ part' = None
    /\ UNCHANGED <<cbVars, clVars, smVars, baVars, sfVars, acVars, rtVars>>
    /\ UNCHANGED <<job, final, srv_version, chunk_size, d_pc, d_result, callVars, attemptVars, ghostVars>>

\* _atomic_complete: the .part file is missing, or the file in the way is
\* removed
DL_RemoveFinal ==
    /\ d_pc = "complete"
    /\ IsNone(part) \/ ~IsNone(final)
    /\ IF IsNone(part)
       THEN d_pc' = "done" /\ d_result' = "error" /\ final' = final
       ELSE d_pc' = "rename" /\ d_result' = d_result /\ final' = None
    /\ UNCHANGED <<cbVars, clVars, smVars, baVars, sfVars, acVars, rtVars>>
    /\ UNCHANGED <<job, part, srv_version, chunk_size, callVars, attemptVars, faultVars, ghostVars>>

\* _atomic_complete: os.rename(part_file, final_file)
DL_Rename ==
    /\ \/ d_pc = "rename"
       \/ d_pc = "complete" /\ ~IsNone(part) /\ IsNone(final)
    /\ final' = part
    /\ part' = None
    /\ d_pc' = "save"
    /\ UNCHANGED <<cbVars, clVars, smVars, baVars, sfVars, acVars, rtVars>>
    /\ UNCHANGED <<job, srv_version, chunk_size, d_result, callVars, attemptVars, faultVars, ghostVars>>

\* state.status = "completed", state.bytes_completed = getsize, and the
\* state object loaded when the call began is saved
DL_SaveCompleted ==
    /\ d_pc = "save"
    /\ d_state' = Some(completed_state(Val(d_state), Len(Val(final))))
    /\ job' = d_state'
    /\ d_pc' = "delete"
    /\ UNCHANGED <<cbVars, clVars, smVars, baVars, sfVars, acVars, rtVars>>
    /\ UNCHANGED <<part, final, srv_version, chunk_size, d_result, d_resume, attemptVars,
                   faultVars, ghostVars>>

\* delete_extraction_state, and download_stream returns the path
DL_DeleteState ==
    /\ d_pc = "delete"
    /\ job' = None
    /\ d_pc' = "done"
    /\ d_result' = "ok"
    /\ UNCHANGED <<cbVars, clVars, smVars, baVars, sfVars, acVars, rtVars>>
    /\ UNCHANGED <<part, final, srv_version, chunk_size, callVars, attemptVars, faultVars, ghostVars>>

\* The frames of a call are gone
ForgetCall ==
    /\ d_pc' = "idle"
    /\ d_result' = "none"
    /\ d_state' = None
    /\ d_resume' = <<0, None, None>>
    /\ NoAttempt
    /\ g_mismatch' = FALSE /\ g_clean' = FALSE /\ g_ranged200' = FALSE
    /\ g_start' = <<0, 0>>
    /\ g_saved' = None
    /\ r_pc' = [r_pc EXCEPT ![DP] = "idle"]
    /\ r_attempt' = [r_attempt EXCEPT ![DP] = 0]
    /\ r_max_retries' = [r_max_retries EXCEPT ![DP] = 0]
    /\ r_cb' = [r_cb EXCEPT ![DP] = FALSE]
    /\ r_exc' = [r_exc EXCEPT ![DP] = "none"]
    /\ r_wake' = [r_wake EXCEPT ![DP] = 0]
    /\ r_result' = [r_result EXCEPT ![DP] = "none"]
    /\ r_calls' = [r_calls EXCEPT ![DP] = 0]
    /\ r_fails' = [r_fails EXCEPT ![DP] = 0]
    /\ r_term' = [r_term EXCEPT ![DP] = "none"]

\* The caller has the path or the exception
DL_Forget ==
    /\ d_pc = "done"
    /\ ForgetCall
    /\ g_prev' = d_result
    /\ UNCHANGED <<cbVars, clVars, smVars, baVars, sfVars, acVars, diskVars, srv_version, chunk_size, faultVars>>

\* What a kill leaves of a .part file f that is open for writing, written
\* bytes after the open.  open(part_file, mode) is a buffered file that the
\* loop never flushes: f.write(chunk) puts the chunk into the buffer, writes
\* the buffer out when the chunk does not fit, and writes a chunk larger than
\* the buffer through.  A kill can come inside any of these writes, so of the
\* bytes handed to f.write since the open any number, from none to all, has
\* reached the disk; what the file held at the open stays.
AfterKill(f, written) ==
    {Some(SubSeq(Val(f), 1, n)) : n \in (Len(Val(f)) - written)..Len(Val(f))}

\* What has been handed to f.write and not counted in bytes_written when
\* the process is killed: nothing, or the next chunk
InWrite == {<<>>, NextChunk}

\* The frames of the killed process are gone; the next process builds its
\* downloader, and with it the breaker, anew
Killed ==
    /\ n_faults < MaxFaults
    /\ n_faults' = n_faults + 1
    /\ ForgetCall
    /\ g_prev' = "killed"
    /\ cb' = NewBreaker(CIRCUIT_BREAKER_THRESHOLD, CIRCUIT_BREAKER_TIMEOUT,
                        CIRCUIT_BREAKER_RECOVERY_THRESHOLD)

\* The process is killed inside save_extraction_state, after
\* open(filepath, 'w') has emptied the record and before json.dump has
\* written it: in the save of a new record, in the progress update of the
\* PROGRESS_EVERY-th chunk (the chunk was handed to f.write before), in the
\* final progress update (the .part file is closed by then) or in the save of
\* the completed state.
DL_KillInSave ==
    /\ \/ /\ d_pc = "idle" /\ IsNone(job) /\ final \in {None, Some(OldFile)}
          /\ part' = part
       \/ /\ d_pc = "streaming" /\ a_body # <<>> /\ ~IsNone(job)
          /\ (a_chunks + 1) % PROGRESS_EVERY = 0
          /\ \E chunk \in InWrite \ {<<>>} :
                part' \in AfterKill(Some(Val(part) \o chunk),
                                    a_written - a_offset + Len(chunk))
       \/ /\ d_pc = "streaming" /\ a_body = <<>> /\ ~IsNone(job)
          /\ part' = part
       \/ /\ d_pc = "save"
          /\ part' = part
    /\ Killed
    /\ job' = Some(Unreadable)
    /\ UNCHANGED final
    /\ UNCHANGED <<now, histVars, clVars, smVars, baVars, sfVars, acVars, srv_version, chunk_size>>

\* The process is killed while a call is under way, at any point before
\* download_stream has returned or raised to its caller.  In the chunk loop
\* the .part file keeps any part of what was handed to f.write; in
\* delete_extraction_state the kill comes before os.remove or after it.
DL_Crash ==
    /\ d_pc # "idle"
    /\ Killed
    /\ IF d_pc = "streaming"
       THEN \E chunk \in InWrite :
               part' \in AfterKill(Some(Val(part) \o chunk),
                                   a_written - a_offset + Len(chunk))
       ELSE part' = part
    /\ job' \in IF d_pc = "delete" THEN {job, None} ELSE {job}
    /\ UNCHANGED final
    /\ UNCHANGED <<now, histVars, clVars, smVars, baVars, sfVars, acVars, srv_version, chunk_size>>

\* "await asyncio.sleep(backoff)" runs its time
DL_Sleep ==
    /\ d_pc = "sleeping"
    /\ r_wake[DP] > now
    /\ cb' = Aged(cb, r_wake[DP] - now)
    /\ r_wake' = [r_wake EXCEPT ![DP] = now]
    /\ UNCHANGED <<now, histVars, clVars, smVars, baVars, sfVars, acVars, dlVars>>
    /\ UNCHANGED <<r_pc, r_attempt, r_max_retries, r_cb, r_exc, r_result, r_calls,
                   r_fails, r_term>>

\* The sleep is over: the next attempt reaches func() or is refused
DL_Resume ==
    /\ d_pc = "sleeping"
    /\ now >= r_wake[DP]
    /\ Resumed(DP)
    /\ AfterRetryStep
    /\ UNCHANGED <<now, histVars, clVars, smVars, baVars, sfVars, acVars>>
    /\ UNCHANGED <<diskVars, srv_version, chunk_size, callVars, attemptVars, faultVars, ghostVars>>

\* Between two calls the recovery timeout goes by
DL_LongWait ==
    /\ d_pc = "idle"
    /\ Aged(cb, CIRCUIT_BREAKER_TIMEOUT) # cb
    /\ cb' = Aged(cb, CIRCUIT_BREAKER_TIMEOUT)
    /\ UNCHANGED <<now, histVars, clVars, smVars, baVars, sfVars, acVars, rtVars, dlVars>>

\* Between two calls the resource is replaced on the server
DL_ResourceChanges ==
    /\ d_pc = "idle"
    /\ n_faults < MaxFaults
    /\ n_faults' = n_faults + 1
    /\ srv_version' = srv_version + 1
    /\ UNCHANGED <<cbVars, clVars, smVars, baVars, sfVars, acVars, rtVars>>
    /\ UNCHANGED <<diskVars, chunk_size, d_pc, d_result, callVars, attemptVars, ghostVars>>

NextDL ==
    \/ DL_Start
    \/ DL_Begin
    \/ DL_GetRaises
    \/ DL_Refused
    \/ DL_Accepted
    \/ DL_Chunk
    \/ DL_StreamFails
    \/ DL_StreamEnds
    \/ DL_PartRemoved
    \/ DL_RemoveFinal
    \/ DL_Rename
    \/ DL_SaveCompleted
    \/ DL_DeleteState
    \/ DL_Forget
    \/ DL_Crash
    \/ DL_KillInSave
    \/ DL_Sleep
    \/ DL_Resume
    \/ DL_LongWait
    \/ DL_ResourceChanges

SpecDL == InitDL /\ [][NextDL]_vars

\* The runs of SpecDL in which the process is never killed.
SpecDLNoKill == InitDL /\ [][NextDL /\ ~DL_Crash /\ ~DL_KillInSave]_vars

\* The artifact files an earlier run of the program left, all written at time 0.
EarlierRun(ids) ==
    [k \in ids |->
        IF k[1] = "sha256" THEN Some(PlayerArtifact(k[2], 0)) ELSE None]

\* The files of an earlier run that ended inside save_player_artifact, in
\* the save of the artifact of version v
BrokenRun(ids, v) ==
    [EarlierRun(ids) EXCEPT ![calculate_player_version_hash(v)] = Some(Unparsable)]

InitManager(n) ==
    /\ ac_cache = <<>>
    /\ ac_disk \in {[k \in VersionIdsOf(n) |-> None], EarlierRun(VersionIdsOf(n)),
                    BrokenRun(VersionIdsOf(n), 1), BrokenRun(VersionIdsOf(n), n)}
    /\ ac_current = None
    /\ ac_last_refresh = None
    /\ utcnow = 0
    /\ player = 1
    /\ ac_pc = [p \in Callers |-> "idle"]
    /\ ac_ver = [p \in Callers |-> 0]
    /\ ac_result = [p \in Callers |-> None]
    /\ ac_hist = [p \in Callers |-> NoCall]
    /\ ac_faults = 0
    /\ ac_has_session = FALSE
    /\ ac_shutdown = FALSE
    /\ ParkedCB
    /\ ParkedCL
    /\ ParkedRT
    /\ ParkedDL
    /\ ParkedSM
    /\ ParkedBA
    /\ ParkedSF

\* Two tasks use one manager.
InitAC ==
    /\ InitManager(MaxVersionsShared)
    /\ tasks = Callers
    /\ site = MaxVersionsShared

\* One task uses the manager, while the site goes through more player versions
\* than the dict is meant to hold.
InitACSeq ==
    /\ InitManager(MaxVersions)
    /\ tasks = {"c1"}
    /\ site = MaxVersions

\* sync_player_artifact() begins with await session_factory.get_session().
\* A factory that has a session returns it without giving up control, and the
\* watch page is requested in the same step.  A factory without one creates
\* it, and the call waits in create_session, for the cookie aging, before any
\* request of its own.
EnterSync(p) ==
    IF ac_has_session THEN "page" ELSE "session"

\* get_current_artifact(force_refresh): either it returns _current_artifact, or
\* it enters sync_player_artifact.
AC_GetCurrent(p, force_refresh) ==
    /\ p \in tasks
    /\ ac_pc[p] = "idle"
    /\ p = "c2" => ac_pc["c1"] # "idle"
    /\ LET sync == needs_refresh(force_refresh, ac_current, ac_last_refresh, utcnow)
           h == [NoCall EXCEPT !.call = IF force_refresh THEN "force" ELSE "get",
                               !.at = IF force_refresh THEN 0 ELSE utcnow,
                               !.synced = sync,
                               !.gets = IF sync /\ ac_has_session THEN 1 ELSE 0]
       IN /\ ac_hist' = [ac_hist EXCEPT ![p] = h]
          /\ IF sync
             THEN /\ ac_pc' = [ac_pc EXCEPT ![p] = EnterSync(p)]
                  /\ UNCHANGED ac_result
             ELSE /\ ac_pc' = [ac_pc EXCEPT ![p] = "done"]
                  /\ ac_result' = [ac_result EXCEPT ![p] = <<"returned", Val(ac_current)>>]
    /\ UNCHANGED <<ac_cache, ac_disk, ac_current, ac_last_refresh, utcnow, player,
                   ac_ver, ac_faults, tasks, site, ac_has_session, ac_shutdown>>
    /\ UNCHANGED <<cbVars, clVars, smVars, baVars, sfVars, rtVars, dlVars>>

\* sync_player_artifact() called directly.
AC_Sync(p) ==
    /\ p \in tasks
    /\ ac_pc[p] = "idle"
    /\ p = "c2" => ac_pc["c1"] # "idle"
    /\ ac_hist' = [ac_hist EXCEPT ![p] =
                      [NoCall EXCEPT !.call = "sync", !.synced = TRUE,
                                     !.gets = IF ac_has_session THEN 1 ELSE 0]]
    /\ ac_pc' = [ac_pc EXCEPT ![p] = EnterSync(p)]
    /\ UNCHANGED <<ac_cache, ac_disk, ac_current, ac_last_refresh, utcnow, player,
                   ac_ver, ac_result, ac_faults, tasks, site, ac_has_session, ac_shutdown>>
    /\ UNCHANGED <<cbVars, clVars, smVars, baVars, sfVars, rtVars, dlVars>>

\* create_session() returns to a call that found the factory without a
\* session: get_session() stores the new session as the factory's, replacing
\* the one another call may have stored meanwhile, and the call requests the
\* watch page.  age_cookies swallows its errors, so the step cannot fail.
AC_SessionReady(p) ==
    /\ ac_pc[p] = "session"
    /\ ac_has_session' = TRUE
    /\ ac_pc' = [ac_pc EXCEPT ![p] = "page"]
    /\ ac_hist' = [ac_hist EXCEPT ![p].gets = 1]
    /\ UNCHANGED <<ac_cache, ac_disk, ac_current, ac_last_refresh, utcnow, player,
                   ac_ver, ac_result, ac_faults, tasks, site, ac_shutdown>>
    /\ UNCHANGED <<cbVars, clVars, smVars, baVars, sfVars, rtVars, dlVars>>

\* What ends a request of sync_player_artifact in failure: session.get()
\* raises, or the response has a status other than 200 and the code raises
\* Exception itself.  Both are raised inside the try block and reach the same
\* except clause; a timeout stands for them.
GetErrors == {"timeout"}

\* The except clause of sync_player_artifact ends the call.
SyncExcept(p, step, e) ==
    /\ ac_hist' = [ac_hist EXCEPT ![p].failed = step, ![p].prior = ac_current,
                                  ![p].err = e]
    /\ ac_result' = [ac_result EXCEPT ![p] = sync_fallback(ac_current)]
    /\ ac_pc' = [ac_pc EXCEPT ![p] = "done"]

\* A step of sync_player_artifact raises inside the try block.
SyncFails(p, step, e) ==
    /\ IF tasks = Callers THEN ac_faults < MaxSyncFaults ELSE ac_faults = 0
    /\ ac_faults' = ac_faults + 1
    /\ SyncExcept(p, step, e)

\* The artifact found in the cache becomes the current one and is returned.
SyncHit(p, look) ==
    /\ ac_cache' = look.cache
    /\ ac_current' = look.found
    /\ ac_last_refresh' = Some(utcnow)
    /\ ac_result' = [ac_result EXCEPT ![p] = <<"returned", Val(look.found)>>]
    /\ ac_hist' = [ac_hist EXCEPT ![p].tier = look.tier,
                                  ![p].age = utcnow - Val(look.found).created_at]
    /\ ac_pc' = [ac_pc EXCEPT ![p] = "done"]

\* The request for the watch page raises or is answered with another status,
\* or the page names no player URL.
AC_PageFails(p, step) ==
    /\ ac_pc[p] = "page"
    /\ \E e \in (IF step = "page" THEN GetErrors ELSE {"none"}) : SyncFails(p, step, e)
    /\ UNCHANGED <<ac_cache, ac_disk, ac_current, ac_last_refresh, utcnow, player, ac_ver, tasks, site, ac_has_session, ac_shutdown>>
    /\ UNCHANGED <<cbVars, clVars, smVars, baVars, sfVars, rtVars, dlVars>>

\* The watch page arrives: the cache is looked up under the URL's id.
AC_Page(p) ==
    /\ ac_pc[p] = "page"
    /\ LET look == _get_from_cache(ac_cache, ac_disk, temp_version_id(player), utcnow) IN
       /\ look.tier # "raised"
       /\ IF ~IsNone(look.found)
          THEN /\ SyncHit(p, look)
               /\ UNCHANGED ac_ver
          ELSE /\ ac_pc' = [ac_pc EXCEPT ![p] = "js"]
               /\ ac_ver' = [ac_ver EXCEPT ![p] = player]
               /\ ac_hist' = [ac_hist EXCEPT ![p].gets = @ + 1]
               /\ UNCHANGED <<ac_cache, ac_current, ac_last_refresh, ac_result>>
    /\ UNCHANGED <<ac_disk, utcnow, player, ac_faults, tasks, site, ac_has_session, ac_shutdown>>
    /\ UNCHANGED <<cbVars, clVars, smVars, baVars, sfVars, rtVars, dlVars>>

\* The request for the player JS raises or is answered with another status.
AC_JsFails(p) ==
    /\ ac_pc[p] = "js"
    /\ \E e \in GetErrors : SyncFails(p, "js", e)
    /\ UNCHANGED <<ac_cache, ac_disk, ac_current, ac_last_refresh, utcnow, player, ac_ver, tasks, site, ac_has_session, ac_shutdown>>
    /\ UNCHANGED <<cbVars, clVars, smVars, baVars, sfVars, rtVars, dlVars>>

\* The watch page or the player JS arrives, the id looked up is not in the
\* dict and its file cannot be parsed: load_player_artifact raises inside
\* _get_from_cache, and the call ends in the except clause.
AC_LookupFails(p) ==
    /\ ac_pc[p] \in {"page", "js"}
    /\ LET version_id == IF ac_pc[p] = "page"
                         THEN temp_version_id(player)
                         ELSE calculate_player_version_hash(ac_ver[p])
       IN  _get_from_cache(ac_cache, ac_disk, version_id, utcnow).tier = "raised"
    /\ SyncExcept(p, "lookup", "none")
    /\ UNCHANGED <<ac_cache, ac_disk, ac_current, ac_last_refresh, utcnow, player, ac_ver, ac_faults, tasks, site, ac_has_session, ac_shutdown>>
    /\ UNCHANGED <<cbVars, clVars, smVars, baVars, sfVars, rtVars, dlVars>>

\* The player JS arrives: the cache is looked up under the hash of the JS,
\* and when it is not there the extraction is handed to the pool.
AC_Js(p) ==
    /\ ac_pc[p] = "js"
    /\ LET look == _get_from_cache(ac_cache, ac_disk,
                                   calculate_player_version_hash(ac_ver[p]), utcnow) IN
       /\ look.tier # "raised"
       /\ IF ~IsNone(look.found)
          THEN SyncHit(p, look)
          ELSE /\ ~ac_shutdown
               /\ ac_pc' = [ac_pc EXCEPT ![p] = "extract"]
               /\ UNCHANGED <<ac_cache, ac_current, ac_last_refresh, ac_result, ac_hist>>
    /\ UNCHANGED <<ac_disk, utcnow, player, ac_ver, ac_faults, tasks, site, ac_has_session, ac_shutdown>>
    /\ UNCHANGED <<cbVars, clVars, smVars, baVars, sfVars, rtVars, dlVars>>

\* The player JS arrives and is not in the cache, and the pool was shut
\* down: run_in_executor raises before the call gives up control, and the
\* call ends in the except clause.
AC_ExtractFails(p) ==
    /\ ac_pc[p] = "js"
    /\ _get_from_cache(ac_cache, ac_disk,
                       calculate_player_version_hash(ac_ver[p]), utcnow).tier = "none"
    /\ ac_shutdown
    /\ SyncExcept(p, "extract", "none")
    /\ UNCHANGED <<ac_cache, ac_disk, ac_current, ac_last_refresh, utcnow, player, ac_ver, ac_faults, tasks, site, ac_has_session, ac_shutdown>>
    /\ UNCHANGED <<cbVars, clVars, smVars, baVars, sfVars, rtVars, dlVars>>

\* The functions are extracted: the artifact is built, cached, saved and made
\* the current one.
AC_Extract(p) ==
    /\ ac_pc[p] = "extract"
    /\ LET artifact == PlayerArtifact(ac_ver[p], utcnow) IN
       /\ ac_cache' = _add_to_cache(ac_cache, artifact)
       /\ ac_disk' = save_player_artifact(ac_disk, artifact)
       /\ ac_current' = Some(artifact)
       /\ ac_last_refresh' = Some(utcnow)
       /\ ac_result' = [ac_result EXCEPT ![p] = <<"returned", artifact>>]
    /\ ac_hist' = [ac_hist EXCEPT ![p].built = TRUE, ![p].prior = ac_current]
    /\ ac_pc' = [ac_pc EXCEPT ![p] = "done"]
    /\ UNCHANGED <<utcnow, player, ac_ver, ac_faults, tasks, site, ac_has_session, ac_shutdown>>
    /\ UNCHANGED <<cbVars, clVars, smVars, baVars, sfVars, rtVars, dlVars>>

\* As AC_Extract, but save_player_artifact raises, in open() or while it
\* writes the file: the artifact is in the dict already, and the files are as
\* save_player_artifact left them.
AC_SaveFails(p) ==
    /\ ac_pc[p] = "extract"
    /\ ac_cache' = _add_to_cache(ac_cache, PlayerArtifact(ac_ver[p], utcnow))
    /\ ac_disk' \in save_player_artifact_raises(ac_disk, PlayerArtifact(ac_ver[p], utcnow))
    /\ SyncFails(p, "persist", "none")
    /\ UNCHANGED <<ac_current, ac_last_refresh, utcnow, player, ac_ver, tasks, site, ac_has_session, ac_shutdown>>
    /\ UNCHANGED <<cbVars, clVars, smVars, baVars, sfVars, rtVars, dlVars>>

\* close(): _js_executor.shutdown(wait=True) lets the work the pool has run
\* to its end and takes no more: every extraction asked of it from then on
\* fails.  The call counts as one of the faults of a run.
AC_Close ==
    /\ ~ac_shutdown
    /\ IF tasks = Callers THEN ac_faults < MaxSyncFaults ELSE ac_faults = 0
    /\ ac_faults' = ac_faults + 1
    /\ ac_shutdown' = TRUE
    /\ UNCHANGED <<ac_cache, ac_disk, ac_current, ac_last_refresh, utcnow, player,
                   ac_pc, ac_ver, ac_result, ac_hist, tasks, site, ac_has_session>>
    /\ UNCHANGED <<cbVars, clVars, smVars, baVars, sfVars, rtVars, dlVars>>

\* The caller has its answer and may call again.
AC_Forget(p) ==
    /\ ac_pc[p] = "done"
    /\ ac_pc' = [ac_pc EXCEPT ![p] = "idle"]
    /\ ac_ver' = [ac_ver EXCEPT ![p] = 0]
    /\ ac_result' = [ac_result EXCEPT ![p] = None]
    /\ ac_hist' = [ac_hist EXCEPT ![p] = NoCall]
    /\ UNCHANGED <<ac_cache, ac_disk, ac_current, ac_last_refresh, utcnow, player, ac_faults, tasks, site, ac_has_session, ac_shutdown>>
    /\ UNCHANGED <<cbVars, clVars, smVars, baVars, sfVars, rtVars, dlVars>>

\* The number of times the clock has advanced to reach t.
Ticks(t) ==
    2 * (t \div (PLAYER_CACHE_TTL + 1)) + (IF t % (PLAYER_CACHE_TTL + 1) = 0 THEN 0 ELSE 1)

\* datetime.utcnow() advances between the calls: by the TTL, then by one
\* second more, and so on.
AC_Tick(d) ==
    /\ \A p \in Callers : ac_pc[p] = "idle"
    /\ d = (IF utcnow % (PLAYER_CACHE_TTL + 1) = 0 THEN PLAYER_CACHE_TTL ELSE 1)
    /\ Ticks(utcnow) < (IF tasks = Callers THEN MaxTicks ELSE MaxTicksSeq)
    /\ utcnow' = utcnow + d
    /\ UNCHANGED <<ac_cache, ac_disk, ac_current, ac_last_refresh, player,
                   ac_pc, ac_ver, ac_result, ac_hist, ac_faults, tasks, site, ac_has_session, ac_shutdown>>
    /\ UNCHANGED <<cbVars, clVars, smVars, baVars, sfVars, rtVars, dlVars>>

\* The site serves its next player version, and after the last one the first
\* again, once the version it serves has been cached and no call is under way.
AC_PlayerChanges(v) ==
    /\ \A p \in Callers : ac_pc[p] = "idle"
    /\ calculate_player_version_hash(player) \in CacheKeys(ac_cache)
    /\ v = (IF player = site THEN 1 ELSE player + 1)
    /\ player' = v
    /\ UNCHANGED <<ac_cache, ac_disk, ac_current, ac_last_refresh, utcnow,
                   ac_pc, ac_ver, ac_result, ac_hist, ac_faults, tasks, site, ac_has_session, ac_shutdown>>
    /\ UNCHANGED <<cbVars, clVars, smVars, baVars, sfVars, rtVars, dlVars>>

NextAC ==
    \/ \E p \in Callers, force_refresh \in BOOLEAN : AC_GetCurrent(p, force_refresh)
    \/ \E p \in Callers : AC_Sync(p)
    \/ \E p \in Callers : AC_SessionReady(p)
    \/ \E p \in Callers, step \in {"page", "url"} : AC_PageFails(p, step)
    \/ \E p \in Callers : AC_Page(p)
    \/ \E p \in Callers : AC_JsFails(p)
    \/ \E p \in Callers : AC_LookupFails(p)
    \/ \E p \in Callers : AC_Js(p)
    \/ \E p \in Callers : AC_ExtractFails(p)
    \/ \E p \in Callers : AC_Extract(p)
    \/ \E p \in Callers : AC_SaveFails(p)
    \/ AC_Close
    \/ \E p \in Callers : AC_Forget(p)
    \/ \E d \in {1, PLAYER_CACHE_TTL} : AC_Tick(d)
    \/ \E v \in Versions : AC_PlayerChanges(v)

SpecAC == InitAC /\ [][NextAC]_vars

SpecACSeq == InitACSeq /\ [][NextAC]_vars


\* --------------------------------- SpecSM: StateManager driven directly
\* A job record some earlier download_stream call left behind.
StoredStates ==
    {[bytes_completed |-> b, etag |-> e, last_modified |-> e, status |-> s] :
        b \in {0, MaxBytes}, e \in {None, Some("v1")}, s \in Statuses}

\* The player_artifacts directories earlier runs left behind: with the file
\* of the first player version, written at time 0, and with that of the
\* second, written PLAYER_CACHE_TTL later, as well.
StoredArtifacts ==
    {[k \in VersionIds |->
        IF k = calculate_player_version_hash(1) /\ n >= 1
        THEN Some(PlayerArtifact(1, 0))
        ELSE IF k = calculate_player_version_hash(2) /\ n >= 2
        THEN Some(PlayerArtifact(2, PLAYER_CACHE_TTL))
        ELSE None] : n \in 1..2}

\* The state directory as earlier runs left it: job records and a .part
\* file beside an empty player_artifacts directory, or artifact files and no
\* job record.
InitSM ==
    /\ \/ /\ sm_jobs \in [JobIds -> {None} \cup {Some(st) : st \in StoredStates}]
          /\ sm_part \in {None} \cup {Some(PartOfSize(n)) : n \in {1, MaxBytes + 1}}
          /\ ac_disk = [k \in VersionIds |-> None]
       \/ /\ sm_jobs = [j \in JobIds |-> None]
          /\ sm_part = None
          /\ ac_disk \in StoredArtifacts
    /\ sm_out = <<"none">>
    /\ utcnow = PLAYER_CACHE_TTL + 1
    /\ ParkedCB
    /\ ParkedCL
    /\ ParkedRT
    /\ ParkedDL
    /\ ParkedManager
    /\ ParkedBA
    /\ ParkedSF

\* list_incomplete_jobs()
SM_List ==
    /\ sm_out' = <<"list", list_incomplete_jobs(sm_jobs)>>
    /\ UNCHANGED <<sm_jobs, sm_part>>
    /\ UNCHANGED <<cbVars, clVars, rtVars, dlVars, acVars, baVars, sfVars>>

\* get_download_resume_info(job_id, target_filename)
SM_ResumeInfo(j) ==
    /\ sm_out' = <<"resume_info", j, get_download_resume_info(sm_jobs[j], sm_part)>>
    /\ UNCHANGED <<sm_jobs, sm_part>>
    /\ UNCHANGED <<cbVars, clVars, rtVars, dlVars, acVars, baVars, sfVars>>

\* update_download_progress(job_id, bytes_completed, etag, last_modified), as
\* the first operation on the records as they were found.
SM_UpdateProgress(j, bytes_completed, etag, last_modified) ==
    /\ sm_out = <<"none">>
    /\ sm_jobs' = [sm_jobs EXCEPT
                     ![j] = update_download_progress(@, bytes_completed, etag, last_modified)]
    /\ sm_out' = <<"update", j, bytes_completed, etag, last_modified>>
    /\ UNCHANGED sm_part
    /\ UNCHANGED <<cbVars, clVars, rtVars, dlVars, acVars, baVars, sfVars>>

\* cleanup_old_artifacts(max_age_hours): every file of the player_artifacts
\* directory whose modification time is before the cutoff is removed.  A
\* file is written once, when its artifact is built, so its modification time
\* is the artifact's created_at.  The cutoff is taken from
\* datetime.utcnow().timestamp(): timestamp() reads the naive UTC time as
\* local time, which moves the cutoff back by the offset of the machine's zone
\* from UTC (in hours, east positive).
cleanup_old_artifacts(disk, t, utc_offset, max_age_hours) ==
    LET cutoff == t - utc_offset * 3600 - max_age_hours * 3600 IN
    [k \in DOMAIN disk |->
        IF ~IsNone(disk[k]) /\ Val(disk[k]).created_at < cutoff THEN None ELSE disk[k]]

SM_Cleanup(utc_offset, max_age_hours) ==
    /\ ac_disk' = cleanup_old_artifacts(ac_disk, utcnow, utc_offset, max_age_hours)
    /\ sm_out' = <<"cleanup">>
    /\ UNCHANGED <<sm_jobs, sm_part>>
    /\ UNCHANGED <<ac_cache, ac_current, ac_last_refresh, utcnow, player,
                   ac_pc, ac_ver, ac_result, ac_hist, ac_faults, tasks, site, ac_has_session, ac_shutdown>>
    /\ UNCHANGED <<cbVars, clVars, rtVars, dlVars, baVars, sfVars>>

NextSM ==
    \/ SM_List
    \/ \E utc_offset \in {-1, 0, 1}, max_age_hours \in {0, 1, 24} :
          SM_Cleanup(utc_offset, max_age_hours)
    \/ \E j \in JobIds : SM_ResumeInfo(j)
    \/ \E j \in JobIds, bytes_completed \in 0..MaxBytes,
          etag \in {None, Some("v2")}, last_modified \in {None, Some("v2")} :
          SM_UpdateProgress(j, bytes_completed, etag, last_modified)

SpecSM == InitSM /\ [][NextSM]_vars

\* ------------------------ SpecBatch: one extract_multiple call
\* extract_multiple(video_ids, max_concurrent) has built the semaphore and the
\* coroutines, and gather() has scheduled them. asyncio.Semaphore refuses a
\* negative value with ValueError and takes every other one, 0 included.
InitBatch ==
    /\ b_n \in 0..MaxVideos
    /\ b_max \in 0..MaxConcurrent
    /\ b_sem = b_max
    /\ b_pc = [v \in Videos |-> IF v <= b_n THEN "waiting" ELSE "absent"]
    /\ b_res = [v \in Videos |-> None]
    /\ b_ret = None
    /\ ParkedCB
    /\ ParkedCL
    /\ ParkedRT
    /\ ParkedDL
    /\ ParkedAC
    /\ ParkedSM
    /\ ParkedSF

\* "async with semaphore": the task of video v enters and calls extract_video.
BA_Acquire(v) ==
    /\ b_pc[v] = "waiting"
    /\ sem_free(b_sem)
    /\ b_sem' = b_sem - 1
    /\ b_pc' = [b_pc EXCEPT ![v] = "running"]
    /\ UNCHANGED <<b_n, b_max, b_res, b_ret>>
    /\ UNCHANGED <<cbVars, clVars, rtVars, dlVars, acVars, smVars, sfVars>>

\* extract_video(vid) returns its result: the task returns it and leaves the
\* semaphore.
BA_Extracted(v) ==
    /\ b_pc[v] = "running"
    /\ b_res' = [b_res EXCEPT ![v] = Some(v)]
    /\ b_pc' = [b_pc EXCEPT ![v] = "done"]
    /\ b_sem' = b_sem + 1
    /\ UNCHANGED <<b_n, b_max, b_ret>>
    /\ UNCHANGED <<cbVars, clVars, rtVars, dlVars, acVars, smVars, sfVars>>

\* extract_video(vid) raises: the task returns None and leaves the semaphore.
BA_Failed(v) ==
    /\ b_pc[v] = "running"
    /\ b_res' = [b_res EXCEPT ![v] = None]
    /\ b_pc' = [b_pc EXCEPT ![v] = "failed"]
    /\ b_sem' = b_sem + 1
    /\ UNCHANGED <<b_n, b_max, b_ret>>
    /\ UNCHANGED <<cbVars, clVars, rtVars, dlVars, acVars, smVars, sfVars>>

\* The results gather() returned, in the order of video_ids, without the None.
RECURSIVE successful(_, _)
successful(res, n) ==
    IF n = 0 THEN <<>>
    ELSE IF IsNone(res[n]) THEN successful(res, n - 1)
    ELSE Append(successful(res, n - 1), Val(res[n]))

\* gather() has every task's result: extract_multiple returns the successful
\* ones.
BA_Return ==
    /\ IsNone(b_ret)
    /\ \A v \in 1..b_n : b_pc[v] \in {"done", "failed"}
    /\ b_ret' = Some(successful(b_res, b_n))
    /\ UNCHANGED <<b_n, b_max, b_sem, b_pc, b_res>>
    /\ UNCHANGED <<cbVars, clVars, rtVars, dlVars, acVars, smVars, sfVars>>

NextBatch ==
    \/ \E v \in Videos : BA_Acquire(v)
    \/ \E v \in Videos : BA_Extracted(v)
    \/ \E v \in Videos : BA_Failed(v)
    \/ BA_Return

\* The event loop runs every task that can run, and every extract_video call
\* ends.
SpecBatch ==
    /\ InitBatch
    /\ [][NextBatch]_vars
    /\ \A v \in Videos : WF_vars(BA_Acquire(v))
    /\ \A v \in Videos : WF_vars(BA_Extracted(v) \/ BA_Failed(v))
    /\ WF_vars(BA_Return)

\* ------------------------- SpecSF: tasks of one loop on a SessionFactory
InitSF ==
    /\ ParkedSF
    /\ ParkedCB
    /\ ParkedCL
    /\ ParkedRT
    /\ ParkedDL
    /\ ParkedAC
    /\ ParkedSM
    /\ ParkedBA

\* create_session, called by p, up to its await or, without one, its return:
\* the AsyncSession is built and the cookie jar copied into it; with no
\* current session the call goes on to age the cookies, otherwise the new
\* session becomes the current one at once.
CreateSession(p) ==
    LET session == sf_created + 1
    IN  /\ sf_created < MaxSessions
        /\ sf_created' = session
        /\ sf_cookies' = [sf_cookies EXCEPT ![session] = sf_cookie_jar]
        /\ sf_new' = [sf_new EXCEPT ![p] = session]
        /\ IF IsNone(sf_current)
           THEN /\ sf_pc' = [sf_pc EXCEPT ![p] = "aging"]
                /\ UNCHANGED <<sf_current, sf_ret>>
           ELSE /\ sf_pc' = [sf_pc EXCEPT ![p] = "done"]
                /\ sf_current' = Some(session)
                /\ sf_ret' = [sf_ret EXCEPT ![p] = Some(session)]
        /\ UNCHANGED <<sf_cookie_jar, sf_visitor_id, sf_session_id, sf_generated>>

\* get_session()
Fac_GetSession(p) ==
    /\ sf_pc[p] = "idle"
    /\ IF IsNone(sf_current)
       THEN CreateSession(p)
       ELSE /\ sf_pc' = [sf_pc EXCEPT ![p] = "done"]
            /\ sf_ret' = [sf_ret EXCEPT ![p] = sf_current]
            /\ UNCHANGED <<sf_current, sf_cookie_jar, sf_visitor_id, sf_session_id,
                           sf_cookies, sf_new, sf_created, sf_generated>>
    /\ UNCHANGED <<sf_closed, sf_old, sf_recreated, sf_direct>>
    /\ UNCHANGED <<cbVars, clVars, rtVars, dlVars, acVars, smVars, baVars>>

\* create_session() called directly.
Fac_CreateSession(p) ==
    /\ sf_pc[p] = "idle"
    /\ CreateSession(p)
    /\ sf_direct' = TRUE
    /\ UNCHANGED <<sf_closed, sf_old, sf_recreated>>
    /\ UNCHANGED <<cbVars, clVars, rtVars, dlVars, acVars, smVars, baVars>>

\* age_cookies is through, having left the cookies set on the session (none
\* when it failed): the identity markers are generated and stored, the
\* session becomes the current one and is returned.
Fac_Aged(p, set) ==
    /\ sf_pc[p] = "aging"
    /\ sf_cookies' = [sf_cookies EXCEPT ![sf_new[p]] = @ \cup set]
    /\ sf_generated' = [visitor_id |-> sf_generated.visitor_id + 1,
                        session_id |-> sf_generated.session_id + 1]
    /\ sf_visitor_id' = Some(sf_generated'.visitor_id)
    /\ sf_session_id' = Some(sf_generated'.session_id)
    /\ sf_current' = Some(sf_new[p])
    /\ sf_ret' = [sf_ret EXCEPT ![p] = Some(sf_new[p])]
    /\ sf_pc' = [sf_pc EXCEPT ![p] = "done"]
    /\ UNCHANGED <<sf_cookie_jar, sf_closed, sf_new, sf_old, sf_created, sf_recreated,
                   sf_direct>>
    /\ UNCHANGED <<cbVars, clVars, rtVars, dlVars, acVars, smVars, baVars>>

\* recreate_session(): with a current session, its cookies are saved and
\* its close() awaited; without one, create_session is called at once.
Fac_Recreate(p) ==
    /\ sf_pc[p] = "idle"
    /\ sf_recreated' = TRUE
    /\ IF IsNone(sf_current)
       THEN /\ CreateSession(p)
            /\ UNCHANGED sf_old
       ELSE /\ sf_cookie_jar' = sf_cookies[Val(sf_current)]
            /\ sf_old' = [sf_old EXCEPT ![p] = Val(sf_current)]
            /\ sf_pc' = [sf_pc EXCEPT ![p] = "closing"]
            /\ UNCHANGED <<sf_current, sf_visitor_id, sf_session_id, sf_cookies,
                           sf_new, sf_ret, sf_created, sf_generated>>
    /\ UNCHANGED <<sf_closed, sf_direct>>
    /\ UNCHANGED <<cbVars, clVars, rtVars, dlVars, acVars, smVars, baVars>>

\* close() is through: recreate_session calls create_session
Fac_Closed(p) ==
    /\ sf_pc[p] = "closing"
    /\ sf_closed' = sf_closed \cup {sf_old[p]}
    /\ CreateSession(p)
    /\ UNCHANGED <<sf_old, sf_recreated, sf_direct>>
    /\ UNCHANGED <<cbVars, clVars, rtVars, dlVars, acVars, smVars, baVars>>

\* A response to a request on an open session sets a cookie on it.
Fac_SetCookie(session, c) ==
    /\ session <= sf_created
    /\ session \notin sf_closed
    /\ c \notin sf_cookies[session]
    /\ sf_cookies' = [sf_cookies EXCEPT ![session] = @ \cup {c}]
    /\ UNCHANGED <<sf_current, sf_cookie_jar, sf_visitor_id, sf_session_id, sf_closed,
                   sf_pc, sf_new, sf_old, sf_ret, sf_created, sf_generated, sf_recreated,
                   sf_direct>>
    /\ UNCHANGED <<cbVars, clVars, rtVars, dlVars, acVars, smVars, baVars>>

\* close(): with a current session its close() is awaited; without one the
\* call returns at once.
Fac_Close(p) ==
    /\ sf_pc[p] = "idle"
    /\ sf_direct' = TRUE
    /\ IF IsNone(sf_current)
       THEN UNCHANGED <<sf_pc, sf_old>>
       ELSE /\ sf_old' = [sf_old EXCEPT ![p] = Val(sf_current)]
            /\ sf_pc' = [sf_pc EXCEPT ![p] = "shutdown"]
    /\ UNCHANGED <<sf_current, sf_cookie_jar, sf_visitor_id, sf_session_id, sf_cookies,
                   sf_closed, sf_new, sf_ret, sf_created, sf_generated, sf_recreated>>
    /\ UNCHANGED <<cbVars, clVars, rtVars, dlVars, acVars, smVars, baVars>>

\* The session's close() is through: close() sets _current_session to None,
\* whichever session it holds by then, and returns.
Fac_ShutDown(p) ==
    /\ sf_pc[p] = "shutdown"
    /\ sf_closed' = sf_closed \cup {sf_old[p]}
    /\ sf_current' = None
    /\ sf_pc' = [sf_pc EXCEPT ![p] = "done"]
    /\ UNCHANGED <<sf_cookie_jar, sf_visitor_id, sf_session_id, sf_cookies, sf_new,
                   sf_old, sf_ret, sf_created, sf_generated, sf_recreated, sf_direct>>
    /\ UNCHANGED <<cbVars, clVars, rtVars, dlVars, acVars, smVars, baVars>>

\* get_visitor_id(): the visitor id is generated if there is none, and
\* returned; the call does not wait.
Fac_GetVisitorId(p) ==
    /\ sf_pc[p] = "idle"
    /\ sf_direct' = TRUE
    /\ IF IsNone(sf_visitor_id)
       THEN /\ sf_generated' = [sf_generated EXCEPT !.visitor_id = @ + 1]
            /\ sf_visitor_id' = Some(sf_generated'.visitor_id)
       ELSE UNCHANGED <<sf_generated, sf_visitor_id>>
    /\ UNCHANGED <<sf_current, sf_cookie_jar, sf_session_id, sf_cookies, sf_closed,
                   sf_pc, sf_new, sf_old, sf_ret, sf_created, sf_recreated>>
    /\ UNCHANGED <<cbVars, clVars, rtVars, dlVars, acVars, smVars, baVars>>

\* get_session_id(): likewise for the session id.
Fac_GetSessionId(p) ==
    /\ sf_pc[p] = "idle"
    /\ sf_direct' = TRUE
    /\ IF IsNone(sf_session_id)
       THEN /\ sf_generated' = [sf_generated EXCEPT !.session_id = @ + 1]
            /\ sf_session_id' = Some(sf_generated'.session_id)
       ELSE UNCHANGED <<sf_generated, sf_session_id>>
    /\ UNCHANGED <<sf_current, sf_cookie_jar, sf_visitor_id, sf_cookies, sf_closed,
                   sf_pc, sf_new, sf_old, sf_ret, sf_created, sf_recreated>>
    /\ UNCHANGED <<cbVars, clVars, rtVars, dlVars, acVars, smVars, baVars>>

\* The caller has its session; its frame is gone
Fac_Forget(p) ==
    /\ sf_pc[p] = "done"
    /\ sf_pc' = [sf_pc EXCEPT ![p] = "idle"]
    /\ sf_new' = [sf_new EXCEPT ![p] = 0]
    /\ sf_old' = [sf_old EXCEPT ![p] = 0]
    /\ sf_ret' = [sf_ret EXCEPT ![p] = None]
    /\ UNCHANGED <<sf_current, sf_cookie_jar, sf_visitor_id, sf_session_id, sf_cookies,
                   sf_closed, sf_created, sf_generated, sf_recreated, sf_direct>>
    /\ UNCHANGED <<cbVars, clVars, rtVars, dlVars, acVars, smVars, baVars>>

NextSF ==
    \/ \E p \in Callers : Fac_GetSession(p)
    \/ \E p \in Callers : Fac_CreateSession(p)
    \/ \E p \in Callers, set \in {{}, {"CONSENT"}} : Fac_Aged(p, set)
    \/ \E p \in Callers : Fac_Recreate(p)
    \/ \E p \in Callers : Fac_Closed(p)
    \/ \E p \in Callers : Fac_Close(p)
    \/ \E p \in Callers : Fac_ShutDown(p)
    \/ \E p \in Callers : Fac_GetVisitorId(p)
    \/ \E p \in Callers : Fac_GetSessionId(p)
    \/ \E session \in Sessions, c \in Cookies : Fac_SetCookie(session, c)
    \/ \E p \in Callers : Fac_Forget(p)

SpecSF == InitSF /\ [][NextSF]_vars

\* ------------------------------------------------------ claims C1 .. C4
\* C1: starting Closed, as long as no run of failure_threshold consecutive
\* record_failure() calls has happened the breaker is still Closed, and a
\* record_failure() that completes such a run leaves it Open.
C1_ThresholdOpens ==
    /\ (~hadRun => cb.state = "closed")
    /\ (lastOp = "record_failure" /\ consec >= cb.failure_threshold => cb.state = "open")

\* C1 witness: with a threshold of at least 2, the record_failure() that
\* completes a run of failure_threshold consecutive failures took the
\* breaker from Closed to Open.
C1_Witness ==
    /\ lastOp = "record_failure" /\ consec = cb.failure_threshold
    /\ cb.failure_threshold >= 2
    /\ pre.state = "closed" /\ pre.failure_count = cb.failure_threshold - 1
    /\ cb.state = "open"

\* Time elapsed, at the last call, since the last recorded failure.
ElapsedAtCall == opTime - Val(pre.last_failure_time)

\* C2 (as stated): a can_attempt() on an Open breaker before the timeout
\* returns false and leaves it Open, and after the timeout can_attempt()
\* returns true exactly once: no second call is answered true before the
\* breaker closes or reopens.
C2_TrueExactlyOnce ==
    /\ (lastOp = "can_attempt" /\ pre.state = "open" /\ ElapsedAtCall < pre.recovery_timeout
           => ~lastRet /\ cb.state = "open")
    /\ probes <= 1

\* C2 (amended): a can_attempt() on an Open breaker before recovery_timeout
\* has elapsed since the last recorded failure returns false and changes
\* nothing; once it has elapsed the call returns true and moves the breaker
\* to HalfOpen with success_count 0; a can_attempt() on a HalfOpen breaker
\* returns true again and changes nothing.
C2_OpenGate ==
    /\ (lastOp = "can_attempt" /\ pre.state = "open" =>
           IF ElapsedAtCall < pre.recovery_timeout
           THEN ~lastRet /\ cb = pre
           ELSE lastRet /\ cb = [pre EXCEPT !.state = "half_open", !.success_count = 0])
    /\ (lastOp = "can_attempt" /\ pre.state = "half_open" => lastRet /\ cb = pre)

\* C2 witness: an Open breaker refused a call made before the timeout ...
C2_WitnessRefused ==
    /\ lastOp = "can_attempt" /\ pre.state = "open"
    /\ ElapsedAtCall < pre.recovery_timeout /\ ~lastRet

\* ... and a call made exactly recovery_timeout after the last failure was
\* let through into HalfOpen.
C2_Witness ==
    /\ lastOp = "can_attempt" /\ pre.state = "open"
    /\ ElapsedAtCall = pre.recovery_timeout /\ lastRet /\ cb.state = "half_open"

\* C3: a record_failure() on a HalfOpen breaker leaves it Open with
\* success_count 0, whatever the counters were.
C3_HalfOpenFailureReopens ==
    lastOp = "record_failure" /\ pre.state = "half_open"
        => cb.state = "open" /\ cb.success_count = 0

\* C3 witness: a HalfOpen breaker that had already counted a success was
\* reopened by one failure.
C3_Witness ==
    /\ lastOp = "record_failure" /\ pre.state = "half_open"
    /\ pre.success_count > 0 /\ pre.failure_count > pre.failure_threshold
    /\ cb.state = "open"

\* C4: a record_success() on a HalfOpen breaker closes it, with both
\* counters zero, exactly when it is the recovery_threshold-th success since
\* HalfOpen was entered; an earlier one leaves it HalfOpen.
C4_RecoveryCloses ==
    lastOp = "record_success" /\ pre.state = "half_open" =>
        IF halfSucc >= cb.recovery_threshold
        THEN cb.state = "closed" /\ cb.failure_count = 0 /\ cb.success_count = 0
        ELSE cb.state = "half_open"

\* C4 witness: the second of two successes closed a HalfOpen breaker that
\* held a non-zero failure_count.
C4_Witness ==
    /\ lastOp = "record_success" /\ pre.state = "half_open"
    /\ cb.recovery_threshold = 2 /\ halfSucc = 2 /\ pre.failure_count > 0
    /\ cb.state = "closed"

\* ------------------------------------------------------ claims C5 .. C7
\* C5: whenever a with_retry call bound to a breaker comes to the head of an
\* attempt, the first or a later one, and the breaker's can_attempt() is
\* false, the call ends at once with the breaker-open error and func() is
\* not invoked; a call that has ended invokes nothing more.
C5_BreakerOpenFailsFast ==
    [][\A p \in Procs :
         /\ ( /\ r_pc[p] \in {"idle", "sleeping"} /\ r_pc'[p] # r_pc[p]
              /\ r_cb'[p]
              /\ cb.state = "open"
              /\ now - Val(cb.last_failure_time) < cb.recovery_timeout )
            => ( /\ r_pc'[p] = "done" /\ r_result'[p] = "breaker_open"
                 /\ r_calls'[p] = r_calls[p] )
         /\ (r_pc[p] = "done" => r_calls'[p] <= r_calls[p])]_vars

\* C5 witness: a later attempt of a call was refused by the breaker, after
\* the call had already invoked func() twice.
C5_Witness ==
    \E p \in Procs : r_pc[p] = "done" /\ r_result[p] = "breaker_open" /\ r_calls[p] = 2

\* C5 witness: the first attempt of a call was refused.
C5_WitnessFirst ==
    \E p \in Procs : r_pc[p] = "done" /\ r_result[p] = "breaker_open" /\ r_calls[p] = 0

\* C6: a with_retry call invokes func() at most max_retries + 1 times, and
\* once an invocation has failed with a Terminal error (status 404, or a
\* message naming nothing transient) the call has ended, raising that error,
\* with that invocation its last one.
C6_BoundedNoTerminalRetry ==
    \A p \in Procs :
        /\ r_calls[p] <= r_max_retries[p] + 1
        /\ r_term[p] # "none" =>
              /\ r_pc[p] = "done" /\ r_result[p] = "error"
              /\ r_exc[p] = r_term[p]
              /\ r_fails[p] = r_calls[p]

\* C6 witness: a call with retries left ended on a 404 raised by its second
\* invocation.
C6_Witness ==
    \E p \in Procs :
        /\ r_term[p] = "http404" /\ r_calls[p] = 2 /\ r_max_retries[p] = 2
        /\ r_pc[p] = "done"

\* C6 witness: a call used all of its max_retries + 1 invocations.
C6_WitnessBudget ==
    \E p \in Procs : r_max_retries[p] = 2 /\ r_calls[p] = 3 /\ r_pc[p] = "done"

\* C7 (as stated): when every failure is Retryable, a call whose breaker, if
\* any, let the first attempt through ends in an error only after
\* max_retries + 1 invocations have failed.
C7_ErrorOnlyAfterBudget ==
    \A p \in Procs :
        ( /\ r_pc[p] = "done" /\ r_result[p] # "ok"
          /\ r_calls[p] >= 1 /\ r_term[p] = "none" )
        => r_fails[p] = r_max_retries[p] + 1

\* C7 (amended): when every failure is Retryable, a call raises func()'s
\* error only after max_retries + 1 invocations have failed; a call bound to
\* a breaker may end earlier, with the breaker-open error, when the breaker
\* refuses one of its later attempts; and a call one of whose invocations
\* did not fail returns its result.
C7_RetriesUntilBudgetOrBreaker ==
    \A p \in Procs :
        r_pc[p] = "done" =>
            /\ (r_result[p] = "error" /\ r_term[p] = "none"
                  => r_fails[p] = r_max_retries[p] + 1 /\ r_calls[p] = r_fails[p])
            /\ (r_result[p] = "breaker_open"
                  => r_cb[p] /\ r_fails[p] <= r_max_retries[p] /\ r_calls[p] = r_fails[p])
            /\ (r_calls[p] > r_fails[p] => r_result[p] = "ok")
            /\ r_result[p] \in {"ok", "error", "breaker_open"}

\* C7 witness: a call not bound to a breaker raised a Retryable error after
\* three failed invocations, max_retries being 2.
C7_Witness ==
    \E p \in Procs :
        /\ r_pc[p] = "done" /\ r_result[p] = "error" /\ r_term[p] = "none"
        /\ ~r_cb[p] /\ r_max_retries[p] = 2 /\ r_fails[p] = 3

\* C7 witness: a call returned the result of its third invocation.
C7_WitnessRecovered ==
    \E p \in Procs :
        r_pc[p] = "done" /\ r_result[p] = "ok" /\ r_fails[p] = 2 /\ r_calls[p] = 3

\* ------------------------------------------------------------- claim C8
\* The four transient conditions, as words: "timeout", "connection reset",
\* "connection refused", "network unreachable".
Conditions ==
    { <<116, 105, 109, 101, 111, 117, 116>>,
      <<99, 111, 110, 110, 101, 99, 116, 105, 111, 110, 32, 114, 101, 115, 101, 116>>,
      <<99, 111, 110, 110, 101, 99, 116, 105, 111, 110, 32, 114, 101, 102, 117, 115, 101, 100>>,
      <<110, 101, 116, 119, 111, 114, 107, 32, 117, 110, 114, 101, 97, 99, 104, 97, 98, 108, 101>> }

\* The words of a condition joined by "_" instead of " ".
Joined(words) == [i \in 1..Len(words) |-> IF words[i] = 32 THEN 95 ELSE words[i]]

\* The message names a transient condition: its text holds the words of the
\* condition, in either case, separated by a space or by an underscore.
NamesTransient(msg) ==
    \E words \in Conditions :
        Contains(lower(msg), words) \/ Contains(lower(msg), Joined(words))

\* C8: a status in {400,401,403,404,410} is classified Terminal and a status
\* in [500,600) Retryable, whatever the message; with any other status, or
\* none, the classification is Retryable exactly when the message names a
\* known transient condition (timeout, connection reset, connection refused,
\* network unreachable), and Terminal otherwise.
C8_Classifier ==
    c_out # "unset" =>
        c_out = IF c_status \in {Some(400), Some(401), Some(403), Some(404), Some(410)}
                THEN "terminal"
                ELSE IF c_status # None /\ Val(c_status) >= 500 /\ Val(c_status) <= 599
                THEN "retryable"
                ELSE IF NamesTransient(c_msg) THEN "retryable" ELSE "terminal"

\* The part of C8 about the status: a status in {400,401,403,404,410} gives
\* Terminal and one in [500,600) Retryable, whatever the message; and a
\* message classified Retryable without such a status names a condition.
C8_StatusDecidesFirst ==
    c_out # "unset" =>
        /\ c_status \in {Some(400), Some(401), Some(403), Some(404), Some(410)}
              => c_out = "terminal"
        /\ (c_status # None /\ Val(c_status) >= 500 /\ Val(c_status) <= 599)
              => c_out = "retryable"
        /\ (c_out = "retryable" /\ ~(c_status # None /\ Val(c_status) >= 500 /\ Val(c_status) <= 599))
              => NamesTransient(c_msg)

\* ------------------------------------------------------ claims C9, C10
\* C9: a download_stream call that resumes at an offset O > 0, from a .part
\* file holding the first O bytes of the resource and a job record holding
\* the ETag the server still sends, and that returns the path (whatever
\* attempts failed and were retried on the way, every Range request having
\* been answered 206), leaves at the target filename the bytes of the
\* resource, which is what a download from offset 0 leaves there.
C9_ResumeByteIdentical ==
    (d_pc = "done" /\ d_result = "ok" /\ g_clean /\ ~g_ranged200)
        => final = Some(Content(srv_version))

\* C10: a download_stream call that resumes at an offset O > 0, meets an ETag
\* other than the one in the job record, and returns the path, leaves at the
\* target filename the whole resource, of the resource's length.
C10_MismatchRestartsComplete ==
    (d_pc = "done" /\ d_result = "ok" /\ d_resume[1] > 0 /\ g_mismatch)
        => /\ ~IsNone(final)
           /\ Len(Val(final)) = LenOf(srv_version)
           /\ Val(final) = Content(srv_version)

\* ------------------------------------------------------ claims C11 .. C15
\* The call under way resumes a download that was interrupted with more
\* bytes in the .part file than the last saved progress.
ResumesAheadOfProgress ==
    /\ d_pc # "idle"
    /\ g_start[2] > 0
    /\ g_start[1] > g_start[2]

\* C11: a download interrupted with more bytes in the .part file than the
\* last saved progress (the file holding the first bytes of the resource the
\* server still has, the job record its ETag), when resumed by a call that
\* returns the path, leaves a file whose size is the resource's length.  The
\* offset the call asks for is left open here: it is the size of the file,
\* the larger of the two numbers, and not the saved progress.
C11_ResumedFileHasResourceLength ==
    (/\ ResumesAheadOfProgress
     /\ g_clean
     /\ d_pc = "done" /\ d_result = "ok")
        => Len(Val(final)) = LenOf(srv_version)

\* C12: an attempt that sent a Range header and got a response other than
\* 206, a 200 with the whole resource included, fails: it never reaches the
\* chunk loop, so no byte of such a response gets into the .part file.
C12_NonPartialFails ==
    (d_pc = "streaming" /\ ~IsNone(range_header(d_resume[1]))) => a_status = 206

\* File contents f are the first Len(f) bytes of contents c.
IsPrefix(f, c) == Len(f) <= Len(c) /\ f = SubSeq(c, 1, Len(f))

\* C13: when a download_stream call has raised, whatever attempts failed and
\* were retried in it, the job record is there with status pending or
\* in_progress, and the .part file, if there is one, holds the first bytes
\* of the resource and nothing else.
C13_FailureLeavesValidState ==
    (d_pc = "done" /\ d_result = "error")
        => /\ ~IsNone(job)
           /\ Val(job).status \in {"pending", "in_progress"}
           /\ ~IsNone(part) => IsPrefix(Val(part), Content(srv_version))

\* C14 as stated: when the download_stream call before raised and left a
\* job record with bytes_completed = C > 0, the call that follows for the
\* same job id and target filename resumes at an offset of at least C: its
\* requests carry a Range header that starts at C or later, never none.
C14_ResumeNotBelowProgress ==
    (d_pc # "idle" /\ g_prev = "error" /\ g_start[2] > 0)
        => /\ d_resume[1] >= g_start[2]
           /\ ~IsNone(range_header(d_resume[1]))

\* C14 amended: in that situation the call resumes at an offset of at least
\* C, with a Range header from there, when the .part file is still there;
\* when the .part file is gone (it was renamed onto the target before the
\* job record could be deleted) the call starts at offset 0 with no Range
\* header.
C14_ResumeNotBelowProgressOfPart ==
    (d_pc # "idle" /\ g_prev = "error" /\ g_start[2] > 0)
        => IF g_start[1] >= 0
           THEN /\ d_resume[1] >= g_start[2]
                /\ range_header(d_resume[1]) = Some(Max(g_start[1], g_start[2]))
           ELSE /\ d_resume[1] = 0
                /\ IsNone(range_header(d_resume[1]))

\* C14 witness: a call raised after the progress update at PROGRESS_EVERY
\* chunks, and the call after it is asking for the bytes from the end of
\* the .part file on.
C14_Witness ==
    /\ d_pc = "requesting" /\ g_prev = "error"
    /\ g_start[2] = PROGRESS_EVERY * chunk_size
    /\ g_start[1] > g_start[2]
    /\ range_header(d_resume[1]) = Some(g_start[1])

\* C14 witness: a kill took bytes of the .part file that the job record
\* counts, a call raised, and the call after it is asking for the bytes from
\* the saved progress on.
C14_WitnessShortFile ==
    /\ d_pc = "requesting" /\ g_prev = "error"
    /\ g_start[2] > 0
    /\ g_start[1] >= 0 /\ g_start[1] < g_start[2]
    /\ range_header(d_resume[1]) = Some(g_start[2])

\* C14 witness: the call before raised, the job record shows progress and
\* the .part file is gone; the call starts over.
C14_WitnessNoPart ==
    /\ d_pc = "requesting" /\ g_prev = "error"
    /\ g_start[2] > 0 /\ g_start[1] < 0
    /\ d_resume[1] = 0

InSync(p) == ac_pc[p] \in {"session", "page", "js", "extract"}

\* C16: two get_current_artifact() calls without force_refresh, made within
\* PLAYER_CACHE_TTL of each other, do not both run sync_player_artifact.
C16_OneSyncWithinTTL ==
    \A p \in Callers, q \in Callers :
        (/\ p # q
         /\ ac_hist[p].call = "get" /\ ac_hist[q].call = "get"
         /\ ac_hist[p].at - ac_hist[q].at <= PLAYER_CACHE_TTL
         /\ ac_hist[q].at - ac_hist[p].at <= PLAYER_CACHE_TTL)
        => ~(ac_hist[p].synced /\ ac_hist[q].synced)

\* C17: at most one caller is inside sync_player_artifact at any time.
C17_OneSyncInFlight ==
    Cardinality({p \in Callers : InSync(p)}) <= 1

\* C18: the dict _artifact_cache never holds more than PLAYER_CACHE_SIZE
\* entries.
C18_CacheWithinCapacity ==
    Len(ac_cache) <= PLAYER_CACHE_SIZE

\* C19: an artifact that a call got from _get_from_cache, out of the dict or
\* out of a file, was not older than PLAYER_CACHE_TTL when it was found.
C19_NoExpiredHit ==
    \A p \in Callers :
        ac_hist[p].tier # "none" => ac_hist[p].age <= PLAYER_CACHE_TTL

\* C20: when a step inside the try block of sync_player_artifact fails, the
\* call returns the artifact that was current at that moment if there was one,
\* and raises the error if there was none.
C20_FallbackOrRaise ==
    \A p \in Callers :
        (ac_pc[p] = "done" /\ ac_hist[p].failed # "none") =>
            ac_result[p] = (IF IsNone(ac_hist[p].prior)
                            THEN <<"raised">>
                            ELSE <<"returned", Val(ac_hist[p].prior)>>)

\* A step failed while there was a current artifact, and the call has ended.
C20_Witness ==
    \E p \in Callers :
        /\ ac_pc[p] = "done"
        /\ ac_hist[p].failed # "none"
        /\ ~IsNone(ac_hist[p].prior)

\* A step failed while there was no current artifact, and the call has ended.
C20_WitnessRaised ==
    \E p \in Callers :
        /\ ac_pc[p] = "done"
        /\ ac_hist[p].failed = "persist"
        /\ IsNone(ac_hist[p].prior)

\* The save of an artifact failed and left a file that cannot be parsed; the
\* call has ended.
C20_WitnessBrokenFile ==
    \E p \in Callers :
        /\ ac_pc[p] = "done"
        /\ ac_hist[p].failed = "persist"
        /\ ac_disk[calculate_player_version_hash(ac_ver[p])] = Some(Unparsable)

\* The lookup of the downloaded player JS met a file that cannot be parsed
\* while there was a current artifact, and the call has ended.
C20_WitnessLookup ==
    \E p \in Callers :
        /\ ac_pc[p] = "done"
        /\ ac_hist[p].failed = "lookup"
        /\ ~IsNone(ac_hist[p].prior)

\* The same while there was no current artifact.
C20_WitnessLookupRaised ==
    \E p \in Callers :
        /\ ac_pc[p] = "done"
        /\ ac_hist[p].failed = "lookup"
        /\ IsNone(ac_hist[p].prior)

\* ---------------------------------------------------- claims C21 .. C30
\* The call of p has ended after it built an artifact from a player JS without
\* signature timestamp.
BuiltWithoutSts(p) ==
    /\ ac_pc[p] = "done"
    /\ ac_hist[p].built
    /\ IsNone(PlayerJs(ac_ver[p]).sts)

\* C21: a sync_player_artifact call that finds no signature timestamp in the
\* player JS raises when there was no current artifact, and returns the
\* artifact that was current when there was one; its own artifact is not in
\* the dict.
C21_MissingStsIsError ==
    \A p \in Callers :
        BuiltWithoutSts(p) =>
            /\ ac_result[p] = (IF IsNone(ac_hist[p].prior)
                               THEN <<"raised">>
                               ELSE <<"returned", Val(ac_hist[p].prior)>>)
            /\ \A i \in 1..Len(ac_cache) :
                  ac_cache[i].value.player_url = ac_ver[p] =>
                      ac_cache[i].value.extracted_sts # Some(19000)

\* C22: list_incomplete_jobs() returns the record of every stored job whose
\* status is pending or in_progress, and no job whose status is completed or
\* failed (nor a job without record).
C22_ListIncomplete ==
    sm_out[1] = "list" =>
        \A j \in JobIds :
            /\ (~IsNone(sm_jobs[j]) /\ Val(sm_jobs[j]).status \in {"pending", "in_progress"})
                  => (j \in DOMAIN sm_out[2] /\ sm_out[2][j] = Val(sm_jobs[j]))
            /\ (~IsNone(sm_jobs[j]) /\ Val(sm_jobs[j]).status \in {"completed", "failed"})
                  => j \notin DOMAIN sm_out[2]
            /\ IsNone(sm_jobs[j]) => j \notin DOMAIN sm_out[2]

\* A listing of records of which one is in progress, one completed and one
\* failed.
C22_Witness ==
    /\ sm_out[1] = "list"
    /\ \E i \in JobIds, c \in JobIds, f \in JobIds :
          /\ ~IsNone(sm_jobs[i]) /\ Val(sm_jobs[i]).status = "in_progress"
          /\ ~IsNone(sm_jobs[c]) /\ Val(sm_jobs[c]).status = "completed"
          /\ ~IsNone(sm_jobs[f]) /\ Val(sm_jobs[f]).status = "failed"
          /\ DOMAIN sm_out[2] = {i}

\* The positions of video_ids whose extract_video call is under way.
InFlight == {v \in Videos : b_pc[v] = "running"}

\* C23: during extract_multiple at most max_concurrent extract_video calls
\* are under way at any moment; every position of video_ids is processed in
\* the end; and what is returned holds the result of every extraction that
\* succeeded and nothing for one that failed.
C23_BoundedBatch ==
    /\ [](Cardinality(InFlight) <= b_max)
    /\ <>(\A v \in 1..b_n : b_pc[v] \in {"done", "failed"})
    /\ [](~IsNone(b_ret) =>
            /\ \A v \in 1..b_n : b_pc[v] \in {"done", "failed"}
            /\ \A v \in 1..b_n :
                  (b_pc[v] = "done") <=> (\E i \in 1..Len(Val(b_ret)) : Val(b_ret)[i] = v))

\* The parts of C23 that every call keeps: the bound on the calls under way,
\* and what a call that returns hands back.
C23_BoundAndResults ==
    /\ Cardinality(InFlight) <= b_max
    /\ ~IsNone(b_ret) =>
            /\ \A v \in 1..b_n : b_pc[v] \in {"done", "failed"}
            /\ \A v \in 1..b_n :
                  (b_pc[v] = "done") <=> (\E i \in 1..Len(Val(b_ret)) : Val(b_ret)[i] = v)

\* With max_concurrent = 0 and a list that is not empty, no extract_video call
\* ever starts and extract_multiple never returns.
C23_NothingStartsAtZero ==
    [](b_max = 0 /\ b_n > 0 => [](IsNone(b_ret) /\ \A v \in 1..b_n : b_pc[v] = "waiting"))

\* The state changes of the breaker's machine.
MachineTransitions ==
    { <<"closed", "open">>, <<"open", "half_open">>,
      <<"half_open", "closed">>, <<"half_open", "open">> }

\* C24: whatever operation is called, the breaker's state stays as it is or
\* changes Closed->Open, Open->HalfOpen, HalfOpen->Closed or HalfOpen->Open.
C24_OnlyMachineTransitions ==
    [][cb'.state # cb.state => <<cb.state, cb'.state>> \in MachineTransitions]_vars

\* The last operation took the breaker from HalfOpen back to Open.
C24_Witness ==
    /\ lastOp = "record_failure"
    /\ pre.state = "half_open"
    /\ cb.state = "open"

\* The last operation took the breaker from HalfOpen to Closed.
C24_WitnessClosed ==
    /\ lastOp = "record_success"
    /\ pre.state = "half_open"
    /\ cb.state = "closed"

\* C25: a can_attempt() on a HalfOpen breaker returns true, whoever calls it
\* and however many calls were admitted before, and leaves the state, both
\* counters and the time of the last failure as they were; nothing keeps a
\* second caller from probing while the first probe is still running.
C25_HalfOpenAdmitsAll ==
    lastOp = "can_attempt" /\ pre.state = "half_open" =>
        /\ lastRet
        /\ cb.state = "half_open"
        /\ cb.failure_count = pre.failure_count
        /\ cb.success_count = pre.success_count
        /\ cb.last_failure_time = pre.last_failure_time

\* Two callers were admitted since the breaker opened and neither has
\* reported: with a recovery threshold of 1 a record_success() would have
\* closed the breaker, a record_failure() would have opened it.
C25_Witness ==
    /\ lastOp = "can_attempt" /\ pre.state = "half_open" /\ lastRet
    /\ cb.recovery_threshold = 1
    /\ cb.success_count = 0
    /\ probes = 2

\* C26: when an invocation of func() ends in a with_retry call bound to a
\* breaker, the breaker changes by exactly one record_success() if func()
\* returned and by exactly one record_failure() if it raised, in the same
\* step that returns, re-raises (terminal error or budget exhausted) or
\* starts the backoff sleep.
C26_OneRecordPerInvocation ==
    [][\A p \in Procs :
          r_pc[p] = "calling" /\ r_pc'[p] # "calling" /\ r_cb[p] =>
              IF r_result'[p] = "ok"
              THEN cb' = record_success(cb) /\ r_fails'[p] = r_fails[p]
              ELSE /\ cb' = record_failure(cb, now)
                   /\ cb'.failure_count = cb.failure_count + 1
                   /\ r_fails'[p] = r_fails[p] + 1
                   /\ r_pc'[p] = "sleeping" \/ r_result'[p] = "error"]_vars

\* A terminal failure of the only invocation was recorded and re-raised.
C26_Witness ==
    /\ r_cb["p1"] /\ r_pc["p1"] = "done" /\ r_result["p1"] = "error"
    /\ r_exc["p1"] \in TerminalErrors
    /\ r_calls["p1"] = 1 /\ r_fails["p1"] = 1
    /\ cb.failure_count = 1

\* The last failure of an exhausted budget was recorded as the ones before.
C26_WitnessExhausted ==
    /\ r_cb["p1"] /\ r_pc["p1"] = "done" /\ r_result["p1"] = "error"
    /\ r_exc["p1"] \notin TerminalErrors
    /\ r_max_retries["p1"] = MaxRetriesBound
    /\ r_fails["p1"] = MaxRetriesBound + 1
    /\ cb.failure_count = MaxRetriesBound + 1

\* A retryable failure with attempts left was recorded before the backoff.
C26_WitnessBackoff ==
    /\ r_cb["p1"] /\ r_pc["p1"] = "sleeping"
    /\ r_fails["p1"] = 1 /\ cb.failure_count = 1

\* A success after a failure was recorded on a HalfOpen breaker.
C26_WitnessSuccess ==
    /\ r_cb["p1"] /\ r_pc["p1"] = "done" /\ r_result["p1"] = "ok"
    /\ cb.state = "half_open" /\ cb.success_count = 1

\* The size of the .part file, a missing file counting as size 0.
PartSizeOrZero == IF IsNone(sm_part) THEN 0 ELSE Len(Val(sm_part))

\* C27 as stated: get_download_resume_info returns, for a job with a
\* record, the larger of the saved bytes_completed and the size of the
\* .part file, a missing file counting as size 0, with the saved etag and
\* last_modified.
C27_OffsetIsMax ==
    sm_out[1] = "resume_info" /\ ~IsNone(sm_jobs[sm_out[2]]) =>
        LET state == Val(sm_jobs[sm_out[2]])
        IN  sm_out[3] = <<Max(state.bytes_completed, PartSizeOrZero),
                          state.etag, state.last_modified>>

\* C27 amended: for a job with a record, the offset is the larger of the
\* saved bytes_completed and the size of the .part file when that file
\* exists, and 0 when it does not, whatever progress was saved; the
\* validators are the saved etag and last_modified.  For a job without a
\* record the answer is offset 0 and no validators.
C27_OffsetIsMaxOfExistingPart ==
    sm_out[1] = "resume_info" =>
        IF IsNone(sm_jobs[sm_out[2]])
        THEN sm_out[3] = <<0, None, None>>
        ELSE LET state == Val(sm_jobs[sm_out[2]])
             IN  sm_out[3] = <<IF IsNone(sm_part) THEN 0
                               ELSE Max(state.bytes_completed, Len(Val(sm_part))),
                               state.etag, state.last_modified>>

\* The job has saved progress and validators, the .part file is gone, and
\* the offset returned is 0.
C27_Witness ==
    /\ sm_out[1] = "resume_info" /\ ~IsNone(sm_jobs[sm_out[2]])
    /\ Val(sm_jobs[sm_out[2]]).bytes_completed = MaxBytes
    /\ ~IsNone(Val(sm_jobs[sm_out[2]]).etag)
    /\ IsNone(sm_part)
    /\ sm_out[3][1] = 0 /\ sm_out[3][2] = Val(sm_jobs[sm_out[2]]).etag

\* The .part file is longer than the saved progress: the offset is its size.
C27_WitnessFileAhead ==
    /\ sm_out[1] = "resume_info" /\ ~IsNone(sm_jobs[sm_out[2]])
    /\ ~IsNone(sm_part)
    /\ Len(Val(sm_part)) > Val(sm_jobs[sm_out[2]]).bytes_completed
    /\ sm_out[3][1] = Len(Val(sm_part))

\* The saved progress is ahead of the .part file: the offset is the progress.
C27_WitnessRecordAhead ==
    /\ sm_out[1] = "resume_info" /\ ~IsNone(sm_jobs[sm_out[2]])
    /\ ~IsNone(sm_part)
    /\ Len(Val(sm_part)) < Val(sm_jobs[sm_out[2]]).bytes_completed
    /\ sm_out[3][1] = Val(sm_jobs[sm_out[2]]).bytes_completed

\* C28: within one download_stream call, each bytes_completed that
\* update_download_progress saves (with status in_progress) is at least the
\* one the call saved before it, whether the two saves belong to one
\* attempt or the later one to a retried attempt or to an attempt that
\* started over after an ETag mismatch.
C28_SavedProgressNeverFalls ==
    [][~IsNone(g_saved) /\ g_saved' # g_saved /\ ~IsNone(g_saved')
          => /\ Val(job').status = "in_progress"
             /\ Val(job').bytes_completed = Val(g_saved')
             /\ Val(g_saved') >= Val(g_saved)]_vars

\* The resource as the server has held it, in any of its versions so far
Outputs == {Content(v) : v \in 1..srv_version}

\* C29: at every point, a kill between two steps of _atomic_complete
\* included, a file at the target filename is the file that was there
\* before the job or the whole resource; the target filename never holds a
\* part of the resource, and when the .part file is missing _atomic_complete
\* raises and leaves the target filename as it is.
C29_TargetStaleOrComplete ==
    /\ ~IsNone(final) => (final = Some(OldFile) \/ Val(final) \in Outputs)
    /\ (d_pc = "done" /\ r_result[DP] = "ok" /\ IsNone(part) /\ IsNone(final))
          => d_result = "error"

\* The key-to-artifact bindings of a dict.
Bindings(cache) == {<<cache[i].key, cache[i].value>> : i \in 1..Len(cache)}

\* The bindings of the dict once artifact is stored under its version id.
BindingsWith(cache, artifact) ==
    {b \in Bindings(cache) : b[1] # artifact.player_version_id}
        \cup {<<artifact.player_version_id, artifact>>}

\* C30: when _add_to_cache stores an artifact and the dict then holds more
\* than PLAYER_CACHE_SIZE entries, the dict afterwards is the dict with the
\* artifact stored less exactly one entry, and no entry of it had an earlier
\* created_at than the one removed; every other binding is as it was.  When
\* the dict does not exceed the capacity nothing is removed.
C30_EvictsOldestOnly ==
    [][\A p \in Callers :
          (/\ ac_pc[p] = "extract"
           /\ ac_hist'[p].built \/ ac_hist'[p].failed = "persist") =>
              LET stored == BindingsWith(ac_cache, PlayerArtifact(ac_ver[p], utcnow))
              IN  /\ Cardinality(Bindings(ac_cache')) = Len(ac_cache')
                  /\ IF Cardinality(stored) > PLAYER_CACHE_SIZE
                     THEN \E gone \in stored :
                             /\ Bindings(ac_cache') = stored \ {gone}
                             /\ \A b \in stored :
                                    gone[2].created_at <= b[2].created_at
                     ELSE Bindings(ac_cache') = stored]_vars

\* The eleventh artifact was built and stored: the dict holds versions 2 to
\* 11, version 1, built a tick earlier than the others, is gone.
C30_Witness ==
    /\ ac_pc["c1"] = "done" /\ ac_hist["c1"].built
    /\ ac_ver["c1"] = PLAYER_CACHE_SIZE + 1
    /\ Len(ac_cache) = PLAYER_CACHE_SIZE
    /\ calculate_player_version_hash(1) \notin CacheKeys(ac_cache)
    /\ ~IsNone(ac_disk[calculate_player_version_hash(1)])
    /\ \A i \in 1..Len(ac_cache) :
          ac_cache[i].value.created_at
              > Val(ac_disk[calculate_player_version_hash(1)]).created_at

\* ---------------------------------------------------- claims C31 .. C40
\* An artifact built from the URL of player version v is in the dict, or in a
\* file no older than PLAYER_CACHE_TTL.
StoredFromUrl(v) ==
    \/ \E i \in 1..Len(ac_cache) : ac_cache[i].value.player_url = v
    \/ \E k \in DOMAIN ac_disk :
          /\ ~IsNone(load_player_artifact(ac_disk, k, utcnow))
          /\ Val(ac_disk[k]).player_url = v

\* C31: a sync_player_artifact call whose watch page gives the player URL of
\* an artifact that is stored and within the TTL finds it under the id
\* computed from the URL and does not go on to request the player JS.
C31_UrlIdHit ==
    \A p \in Callers :
        ac_pc[p] = "js" => ~StoredFromUrl(ac_ver[p])

\* C32: when a sync_player_artifact call gives up on the request for the
\* watch page or for the player JS because of a Retryable error, that request
\* has been made MAX_RETRIES + 1 times (no breaker ever refused it).
C32_FetchRetried ==
    \A p \in Callers :
        (/\ ac_hist[p].failed \in {"page", "js"}
         /\ ac_hist[p].err \in TransportErrors \ TerminalErrors) =>
            IF ac_hist[p].failed = "page"
            THEN ac_hist[p].gets = MAX_RETRIES + 1
            ELSE ac_hist[p].gets >= 1 + MAX_RETRIES + 1

\* C33: update_download_progress on an unknown job id changes no record and
\* creates none; on a known id it sets bytes_completed to the value given
\* and status to in_progress, replaces etag and last_modified only when a
\* value is given, and leaves every other job record as it was.
C33_UpdateProgress ==
    [][(sm_out = <<"none">> /\ sm_out'[1] = "update") =>
          LET j == sm_out'[2]
              bytes_completed == sm_out'[3]
              etag == sm_out'[4]
              last_modified == sm_out'[5]
          IN  /\ \A k \in JobIds \ {j} : sm_jobs'[k] = sm_jobs[k]
              /\ IsNone(sm_jobs[j]) => IsNone(sm_jobs'[j])
              /\ ~IsNone(sm_jobs[j]) =>
                    /\ ~IsNone(sm_jobs'[j])
                    /\ Val(sm_jobs'[j]).bytes_completed = bytes_completed
                    /\ Val(sm_jobs'[j]).status = "in_progress"
                    /\ Val(sm_jobs'[j]).etag =
                          (IF IsNone(etag) THEN Val(sm_jobs[j]).etag ELSE etag)
                    /\ Val(sm_jobs'[j]).last_modified =
                          (IF IsNone(last_modified) THEN Val(sm_jobs[j]).last_modified
                           ELSE last_modified)]_vars

\* An update without validators has run on a record that keeps the ones it
\* had, next to another record.
C33_Witness ==
    /\ sm_out[1] = "update"
    /\ IsNone(sm_out[4]) /\ IsNone(sm_out[5])
    /\ ~IsNone(sm_jobs[sm_out[2]])
    /\ Val(sm_jobs[sm_out[2]]).etag = Some("v1")
    /\ Val(sm_jobs[sm_out[2]]).bytes_completed = sm_out[3]
    /\ \E k \in JobIds \ {sm_out[2]} : ~IsNone(sm_jobs[k])

\* An update has run on an id that has no record.
C33_WitnessUnknown ==
    /\ sm_out[1] = "update"
    /\ IsNone(sm_jobs[sm_out[2]])

\* An update with validators has replaced the ones the record had.
C33_WitnessReplaced ==
    /\ sm_out[1] = "update"
    /\ ~IsNone(sm_jobs[sm_out[2]])
    /\ Val(sm_jobs[sm_out[2]]).etag = Some("v2")
    /\ Val(sm_jobs[sm_out[2]]).last_modified = None

\* C34: a download_stream call does not end on the error of an attempt
\* whose response had a status from 500 to 599 while the call has attempts
\* left and the download breaker is not open: the transfer is attempted again.
C34_ServerErrorRetried ==
    (/\ d_pc = "done" /\ d_result = "error"
     /\ r_exc[DP] = "download_failed_503")
        => \/ r_attempt[DP] >= r_max_retries[DP]
           \/ cb.state = "open"

\* C35: while an attempt is writing, the .part file is ahead of the
\* bytes_completed in the job record by less than PROGRESS_EVERY chunks, of
\* chunk_size bytes each.
C35_UnsavedBelowInterval ==
    (d_pc = "streaming" /\ ~IsNone(job) /\ ~IsNone(part))
        => Len(Val(part)) - Val(job).bytes_completed < PROGRESS_EVERY * chunk_size

\* C36 as stated: the delay with_retry goes to sleep for after failed attempt
\* k is at least RETRY_BACKOFF_BASE^k and less than that plus RETRY_JITTER_MAX.
C36_BackoffBelowJitterMax ==
    [][\A p \in Procs :
          (r_pc[p] = "calling" /\ r_pc'[p] = "sleeping") =>
              /\ r_wake'[p] - now >= Pow(RETRY_BACKOFF_BASE, r_attempt[p])
              /\ r_wake'[p] - now < Pow(RETRY_BACKOFF_BASE, r_attempt[p]) + RETRY_JITTER_MAX]_vars

\* C36, amended: the delay after failed attempt k is at least
\* RETRY_BACKOFF_BASE^k and at most that plus RETRY_JITTER_MAX; attempt k+1
\* starts only out of the sleep that followed attempt k, when that delay has
\* gone by; and a call never has more than one attempt that has started and
\* not ended.
C36_BackoffAndSequence ==
    /\ [][\A p \in Procs :
             /\ (r_pc[p] = "calling" /\ r_pc'[p] = "sleeping") =>
                   /\ r_wake'[p] - now >= Pow(RETRY_BACKOFF_BASE, r_attempt[p])
                   /\ r_wake'[p] - now <= Pow(RETRY_BACKOFF_BASE, r_attempt[p]) + RETRY_JITTER_MAX
                   /\ r_attempt'[p] = r_attempt[p]
             /\ (r_pc[p] = "sleeping" /\ r_pc'[p] # "sleeping") =>
                   /\ now >= r_wake[p]
                   /\ r_attempt'[p] = r_attempt[p] + 1
             /\ (r_calls'[p] = r_calls[p] + 1 /\ r_calls[p] > 0) =>
                   /\ r_pc[p] = "sleeping"
                   /\ r_calls'[p] = r_attempt'[p] + 1]_vars
    /\ [](\A p \in Procs :
             /\ r_calls[p] - r_fails[p] \in {0, 1}
             /\ r_pc[p] = "calling" => r_calls[p] - r_fails[p] = 1
             /\ r_pc[p] = "sleeping" => r_calls[p] = r_fails[p])

\* The second attempt has failed and the call has just gone to sleep for the
\* longest delay there is for it.
C36_Witness ==
    \E p \in Procs :
        /\ r_pc[p] = "sleeping"
        /\ r_attempt[p] = 1
        /\ r_wake[p] - now = Pow(RETRY_BACKOFF_BASE, 1) + RETRY_JITTER_MAX

\* The third attempt is under way, after two sleeps.
C36_WitnessThirdAttempt ==
    \E p \in Procs :
        /\ r_pc[p] = "calling"
        /\ r_attempt[p] = 2
        /\ r_calls[p] = 3 /\ r_fails[p] = 2

\* C37: whatever calls a breaker with thresholds of at least 1 has seen,
\* success_count is 0 while it is closed or open and below recovery_threshold
\* while it is half-open, and failure_count is below failure_threshold while
\* it is closed.
C37_CounterRanges ==
    /\ cb.state \in {"closed", "open"} => cb.success_count = 0
    /\ cb.state = "half_open" =>
          (cb.success_count >= 0 /\ cb.success_count < cb.recovery_threshold)
    /\ cb.state = "closed" =>
          (cb.failure_count >= 0 /\ cb.failure_count < cb.failure_threshold)

\* A half-open breaker is one success short of closing, after failures
\* beyond its threshold.
C37_Witness ==
    /\ cb.state = "half_open"
    /\ cb.recovery_threshold > 1
    /\ cb.success_count = cb.recovery_threshold - 1
    /\ cb.failure_count > cb.failure_threshold

\* A breaker that closed again out of half-open is one failure short of
\* opening.
C37_WitnessClosed ==
    /\ cb.state = "closed"
    /\ lastOp = "record_failure"
    /\ ~IsNone(cb.last_failure_time)
    /\ cb.failure_threshold > 1
    /\ cb.failure_count = cb.failure_threshold - 1
    /\ halfSucc > 0

\* C38: the step in which with_retry raises "Circuit breaker OPEN" instead of
\* making an attempt leaves the breaker as it was: state, failure_count,
\* success_count and last_failure_time, so the time at which the breaker
\* lets a probe through stays the same.
C38_RefusalLeavesBreaker ==
    [][\A p \in Procs :
          (r_pc[p] \in {"idle", "sleeping"} /\ r_result'[p] = "breaker_open") =>
              /\ cb.state = "open"
              /\ cb'.state = cb.state
              /\ cb'.failure_count = cb.failure_count
              /\ cb'.success_count = cb.success_count
              /\ cb'.last_failure_time = cb.last_failure_time
              /\ r_fails'[p] = r_fails[p]
              /\ r_calls'[p] = r_calls[p]]_vars

\* A call was refused at its second attempt, while the breaker's timeout
\* was running.
C38_Witness ==
    \E p \in Procs :
        /\ r_pc[p] = "done"
        /\ r_result[p] = "breaker_open"
        /\ r_attempt[p] = 1
        /\ cb.state = "open"
        /\ ~IsNone(cb.last_failure_time)
        /\ now - Val(cb.last_failure_time) < cb.recovery_timeout

\* A call was refused before its first attempt.
C38_WitnessFirst ==
    \E p \in Procs :
        /\ r_pc[p] = "done"
        /\ r_result[p] = "breaker_open"
        /\ r_attempt[p] = 0 /\ r_calls[p] = 0

\* C39: whenever the .part file of the job exists, the bytes_completed in
\* the job record is at most the size of the file.
C39_RecordWithinFile ==
    (~IsNone(part) /\ ~IsNone(job)) => Val(job).bytes_completed <= Len(Val(part))

\* C40: however get_session() calls of concurrent tasks interleave on one
\* SessionFactory, one session at most is created and the identity markers
\* are generated once, as long as get_session() is all that has been called;
\* a recreate_session() that follows leaves visitor_id and session_id as they
\* were and gives the new session the cookies of the one it replaces.
C40_OneSessionOneIdentity ==
    /\ []((~sf_recreated /\ ~sf_direct) =>
             /\ sf_created <= 1
             /\ sf_generated.visitor_id <= 1
             /\ sf_generated.session_id <= 1)
    /\ [][\A p \in Callers :
             (sf_pc[p] = "closing" /\ sf_pc'[p] = "done") =>
                 /\ sf_visitor_id' = sf_visitor_id
                 /\ sf_session_id' = sf_session_id
                 /\ sf_cookies'[sf_new'[p]] = sf_cookies[sf_old[p]]]_vars

====
